---- MODULE Spec2Model ----
(***************************************************************************)
(* Model of the gossip agent client: the canonical Message model, the tool *)
(* registry (ToolStore) with ExecuteToolIntent, and the recursive Run of   *)
(* the Anthropic, OpenAI and Groq adapters.  Run is modelled as a call     *)
(* stack of frames; one action per blocking step of a frame (the HTTP      *)
(* round trip, the tool dispatch, the return to the calling frame).        *)
(***************************************************************************)
EXTENDS Naturals, Sequences, FiniteSets, Bags, TLC

VARIABLES
    adapter,     \* which adapter NewAgent constructed
    ToolStore,   \* AgentConfig.ToolStore: functions, paramTypes, descriptions
    stack,       \* the chain of active Run frames, outermost first
    outcome,     \* what the top-level Run handed back to its caller
    callerArr,   \* backing array of the caller's history slice (all cap slots)
    callerArr0,  \* that array as it was when the caller made the call
    callerLen,   \* len() of the caller's history slice
    callerPrompt,\* the prompt of the top-level call
    responses,   \* every provider response decoded so far, in order
    dispatched,  \* every ToolIntent handed to ExecuteToolIntent, in order
    invoked,     \* every registered callable actually invoked (its body)
    requests,    \* every request put on the wire so far, in order
    trace,       \* order of external events: "send", "recv", "dispatch"
    failure,     \* first failure of the call ("" while none) and trace length then
    registered,  \* the Agent.RegisterTool call that has just returned to the caller
                 \* (its arguments, the store before it, the error returned),
                 \* <<>> once the caller has gone on to Run
    registering, \* a RegisterTool call running on another goroutine: <<>> if none
    SystemPrompt,\* AgentConfig.SystemPrompt ("" when WithSystemPrompt was not given)
    conversion,  \* a call of ConvertToProperties: its input and, once made, its output
    construction \* a call of NewAgent: model string, environment, options, and
                 \* what it returned once made

vars == <<adapter, ToolStore, stack, outcome, callerArr, callerArr0, callerLen,
          callerPrompt, requests, responses, dispatched, invoked, trace, failure,
          registered, registering, SystemPrompt, conversion, construction>>

(***************************************************************************)
(* Bounds of the model.                                                    *)
(***************************************************************************)
\* no frame sends a request once this many requests were sent in the call
MaxRequests == 3
\* spare capacity (cap - len) of the history slice a caller passes
CallerSpare == 2
\* only the first responses of a call, this many, may have two items
MultiItemResponses == 1

Adapters == {"anthropic", "openai", "groq"}

(***************************************************************************)
(* Canonical message model.  A Go pointer field is an optional: <<>> is    *)
(* nil, <<v>> points to v.                                                 *)
(***************************************************************************)
ToolIntent(id, name, arguments) ==
    [Id |-> id, Name |-> name, Arguments |-> arguments]

ZeroIntent == ToolIntent("", "", "")

ToolResult(id, output) == [Id |-> id, Output |-> output]

Message(role, text, type, intent, result) ==
    [Role |-> role, Text |-> text, Type |-> type,
     ToolIntent |-> intent, ToolResult |-> result]

ZeroMessage == Message("", "", "", <<>>, <<>>)

\* Message{Role: r, Text: t}
TextMessage(role, text) == Message(role, text, "", <<>>, <<>>)

\* Message{Type: "tool_intent", ToolIntent: &intent}
IntentMessage(intent) == Message("", "", "tool_intent", <<intent>>, <<>>)

\* Message{ToolResult: toolResult}
ResultMessage(result) == Message("", "", "", <<>>, <<result>>)

(***************************************************************************)
(* JSON argument strings a provider can put in a tool call, and what       *)
(* encoding/json makes of them when ExecuteToolIntent unmarshals them into *)
(* &paramInstance (an interface holding a *DivParams).                     *)
(***************************************************************************)
ArgsGood      == "{\"a\":6,\"b\":3}"
ArgsZero      == "{\"a\":6,\"b\":0}"
ArgsBadJSON   == "{\"a\":6,"
ArgsWrongType == "{\"a\":\"six\",\"b\":3}"
ArgsNull      == "null"

\* json.Unmarshal([]byte(arguments), &paramInstance):
\*   err  - Unmarshal returns an error (syntax error, type mismatch, empty input)
\*   null - the JSON null literal: no error, the interface is set to nil
\*   val  - the decoded parameter struct otherwise
Unmarshal(arguments) ==
    CASE arguments = ArgsGood      -> [err |-> FALSE, null |-> FALSE, val |-> [a |-> 6, b |-> 3]]
      [] arguments = ArgsZero      -> [err |-> FALSE, null |-> FALSE, val |-> [a |-> 6, b |-> 0]]
      [] arguments = ArgsNull      -> [err |-> FALSE, null |-> TRUE,  val |-> [a |-> 0, b |-> 0]]
      [] OTHER                     -> [err |-> TRUE,  null |-> FALSE, val |-> [a |-> 0, b |-> 0]]

(***************************************************************************)
(* The Go functions a caller registers.  name is the last part of the      *)
(* function's runtime name, body tells the callables apart.  div returns   *)
(* a/b and panics on b = 0 (integer divide by zero); a function of another *)
(* package that is also called div returns 0 when b = 0; notify returns    *)
(* nothing; pair takes two parameters.                                     *)
(***************************************************************************)
FnDiv     == [name |-> "div",    numIn |-> 1, body |-> "div"]
FnSafeDiv == [name |-> "div",    numIn |-> 1, body |-> "safediv"]
FnNotify  == [name |-> "notify", numIn |-> 1, body |-> "notify"]
FnPair    == [name |-> "pair",   numIn |-> 2, body |-> "pair"]

Funcs == {FnDiv, FnSafeDiv, FnNotify, FnPair}

\* Go types as reflect shows them: a kind, and the element type of a slice,
\* array or pointer, or name and fields of a struct
Basic(kind) == [Kind |-> kind]

SliceOf(elem) == [Kind |-> "slice", Elem |-> elem]

ArrayOf(elem) == [Kind |-> "array", Elem |-> elem]

PtrTo(elem) == [Kind |-> "ptr", Elem |-> elem]

StructOf(name, fields) == [Kind |-> "struct", Name |-> name, Fields |-> fields]

\* reflect.StructField: name, json tag and type
StructField(name, json, type) == [Name |-> name, Json |-> json, Type |-> type]

\* the parameter structs whose zero values are passed to RegisterTool
DivParams ==
    StructOf("DivParams",
        <<StructField("A", "a", Basic("int")), StructField("B", "b", Basic("int"))>>)

SafeDivParams ==
    StructOf("SafeDivParams",
        <<StructField("A", "a", Basic("int")), StructField("B", "b", Basic("int"))>>)

NotifyParams ==
    StructOf("NotifyParams",
        <<StructField("Text", "", Basic("string"))>>)

PairParams ==
    StructOf("PairParams",
        <<StructField("A", "a", Basic("int"))>>)

\* the arguments of the RegisterTool calls a caller makes
Registration(fn, paramType, description) ==
    [fn |-> fn, paramType |-> paramType, description |-> description]

Registrations ==
    {Registration(FnDiv, DivParams, "divide a by b"),
     Registration(FnSafeDiv, SafeDivParams, "divide a by b, 0 when b is 0"),
     Registration(FnNotify, NotifyParams, "notify the user"),
     Registration(FnNotify, Basic("string"), "notify the user of a text"),
     Registration(FnPair, PairParams, "pair two values")}

\* reflect.Value.Call on the registered function: the returned values, or a panic
CallFn(fn, val) ==
    CASE fn.body = "div" ->
            IF val.b = 0
            THEN [panic |-> TRUE,  out |-> <<>>]
            ELSE [panic |-> FALSE, out |-> <<val.a \div val.b>>]
      [] fn.body = "safediv" ->
            [panic |-> FALSE, out |-> <<IF val.b = 0 THEN 0 ELSE val.a \div val.b>>]
      [] OTHER -> [panic |-> FALSE, out |-> <<>>]

\* fmt.Sprintf("%v", v) of an integer
Sprint(v) == ToString(v)

EmptyStore == [functions |-> <<>>, paramTypes |-> <<>>, descriptions |-> <<>>]

\* faulty variant: a key that is already in the map keeps its value
MapSetIfAbsent(m, k, v) ==
    [x \in (DOMAIN m) \cup {k} |-> IF x \in DOMAIN m THEN m[x] ELSE v]

\* m[k] = v on a Go map
MapSet(m, k, v) == [x \in (DOMAIN m) \cup {k} |-> IF x = k THEN v ELSE m[x]]

\* getToolName: the last dot-separated part of the function's runtime name
getToolName(fn) == fn.name

\* AgentConfig.RegisterTool: the store after the call, and the error returned
RegisterToolStore(store, fn, paramType, description) ==
    IF fn.numIn # 1
    THEN [store |-> store, err |-> "function must take exactly one parameter"]
    ELSE [store |-> [functions    |-> MapSet(store.functions, getToolName(fn), fn),
                     paramTypes   |-> MapSet(store.paramTypes, getToolName(fn), paramType),
                     descriptions |-> MapSet(store.descriptions, getToolName(fn), description)],
          err |-> ""]

(***************************************************************************)
(* AgentConfig.ExecuteToolIntent.  kind is "ok" (a *ToolResult), "error"   *)
(* (nil and an error value) or "panic" (the goroutine panics: nothing in   *)
(* ExecuteToolIntent or Run recovers).  called lists the callables invoked.*)
(***************************************************************************)
DispatchError(err) ==
    [kind |-> "error", err |-> err, result |-> <<>>, called |-> <<>>]

DispatchPanic(called) ==
    [kind |-> "panic", err |-> "panic", result |-> <<>>, called |-> called]

\* lines 208-215: both lookups of the tool name
LookupFails(store, fnName) ==
    fnName \notin DOMAIN store.functions \/ fnName \notin DOMAIN store.paramTypes

\* faulty variant: the result is labelled with the tool's name, not the intent's id
InvokeAndWrapNameAsId(fn, toolIntent, val) ==
    LET r == CallFn(fn, val) IN
    IF r.panic THEN DispatchPanic(<<fn.body>>)
    ELSE IF Len(r.out) = 0
         THEN [kind |-> "error", err |-> "DispatchError", result |-> <<>>,
               called |-> <<fn.body>>]
         ELSE [kind |-> "ok", err |-> "",
               result |-> <<ToolResult(toolIntent.Name, Sprint(r.out[1]))>>,
               called |-> <<fn.body>>]

\* lines 228-238: invoke the callable and wrap its first return value
InvokeAndWrap(fn, toolIntent, val) ==
    LET r == CallFn(fn, val) IN
    IF r.panic THEN DispatchPanic(<<fn.body>>)
    ELSE IF Len(r.out) = 0
         THEN [kind |-> "error", err |-> "DispatchError", result |-> <<>>,
               called |-> <<fn.body>>]
         ELSE [kind |-> "ok", err |-> "",
               result |-> <<ToolResult(toolIntent.Id, Sprint(r.out[1]))>>,
               called |-> <<fn.body>>]

\* lines 217-226: decode the arguments; the nil interface left by a JSON null
\* makes reflect.TypeOf(paramInstance).Elem() panic
DecodeAndInvoke(fn, toolIntent) ==
    LET d == Unmarshal(toolIntent.Arguments) IN
    IF d.err THEN DispatchError("ArgumentDecodeError")
    ELSE IF d.null THEN DispatchPanic(<<>>)
    ELSE InvokeAndWrap(fn, toolIntent, d.val)

\* faulty variant: the arguments are decoded before the tool name is looked up
ExecuteToolIntentDecodeFirst(store, toolIntent) ==
    IF Unmarshal(toolIntent.Arguments).err THEN DispatchError("ArgumentDecodeError")
    ELSE IF LookupFails(store, toolIntent.Name) THEN DispatchError("ToolNotFound")
    ELSE DecodeAndInvoke(store.functions[toolIntent.Name], toolIntent)

ExecuteToolIntent(store, toolIntent) ==
    IF LookupFails(store, toolIntent.Name)
    THEN DispatchError("ToolNotFound")
    ELSE DecodeAndInvoke(store.functions[toolIntent.Name], toolIntent)

(***************************************************************************)
(* Anthropic wire format.  A tool_use input is a JSON object held as a Go  *)
(* map[string]any: a sequence of <<key, literal>> pairs here; the nil map  *)
(* (input absent or null on the wire) is InNil.                            *)
(***************************************************************************)
InNil       == <<>>
InGood      == << <<"a", "6">>, <<"b", "3">> >>
InZero      == << <<"a", "6">>, <<"b", "0">> >>
InWrongType == << <<"a", "\"six\"">>, <<"b", "3">> >>

\* json.Marshal(item.Input): keys in sorted order, "null" for the nil map
MarshalInput(input) ==
    CASE input = InGood      -> ArgsGood
      [] input = InZero      -> ArgsZero
      [] input = InWrongType -> ArgsWrongType
      [] OTHER               -> ArgsNull

\* json.Unmarshal([]byte(arguments), &input) with input a map[string]any
UnmarshalInput(arguments) ==
    CASE arguments = ArgsGood      -> [err |-> FALSE, input |-> InGood]
      [] arguments = ArgsZero      -> [err |-> FALSE, input |-> InZero]
      [] arguments = ArgsWrongType -> [err |-> FALSE, input |-> InWrongType]
      [] arguments = ArgsNull      -> [err |-> FALSE, input |-> InNil]
      [] OTHER                     -> [err |-> TRUE,  input |-> InNil]

AnthropicContent(type, text, id, name, input, toolUseId, content) ==
    [Type |-> type, Text |-> text, Id |-> id, Name |-> name, Input |-> input,
     ToolUseId |-> toolUseId, Content |-> content]

AnthropicMessage(role, content) == [Role |-> role, Content |-> <<content>>]

\* one iteration of the loop of Anthropic.FormatMessages
AnthropicFormatOne(msg) ==
    IF msg.ToolIntent # <<>>
    THEN LET ti == msg.ToolIntent[1]
             u  == IF ti.Arguments # "" THEN UnmarshalInput(ti.Arguments)
                   ELSE [err |-> FALSE, input |-> InNil]
         IN [err |-> u.err,
             msg |-> AnthropicMessage("assistant",
                        AnthropicContent("tool_use", "", ti.Id, ti.Name, u.input, "", ""))]
    ELSE IF msg.ToolResult # <<>>
    THEN [err |-> FALSE,
          msg |-> AnthropicMessage("user",
                     AnthropicContent("tool_result", "", "", "", InNil,
                                      msg.ToolResult[1].Id, msg.ToolResult[1].Output))]
    ELSE [err |-> FALSE,
          msg |-> AnthropicMessage("user",
                     AnthropicContent("text", msg.Text, "", "", InNil, "", ""))]

RECURSIVE AnthropicFormatMessages(_)
AnthropicFormatMessages(messages) ==
    IF messages = <<>> THEN [err |-> FALSE, msgs |-> <<>>]
    ELSE LET one  == AnthropicFormatOne(Head(messages))
             rest == AnthropicFormatMessages(Tail(messages))
         IN IF one.err \/ rest.err THEN [err |-> TRUE, msgs |-> <<>>]
            ELSE [err |-> FALSE, msgs |-> <<one.msg>> \o rest.msgs]

(***************************************************************************)
(* OpenAI wire format.                                                     *)
(***************************************************************************)
OpenaiMessage(role, content, type, callId, name, arguments, output) ==
    [Role |-> role, Content |-> content, Type |-> type, CallId |-> callId,
     Name |-> name, Arguments |-> arguments, Output |-> output]

OpenaiFormatOne(msg) ==
    IF msg.ToolIntent # <<>>
    THEN OpenaiMessage("", "", "function_call", msg.ToolIntent[1].Id,
                       msg.ToolIntent[1].Name, msg.ToolIntent[1].Arguments, "")
    ELSE IF msg.ToolResult # <<>>
    THEN OpenaiMessage("", "", "function_call_output", msg.ToolResult[1].Id,
                       "", "", msg.ToolResult[1].Output)
    ELSE OpenaiMessage("user", msg.Text, "", "", "", "", "")

OpenaiFormatMessages(messages) ==
    [i \in 1..Len(messages) |-> OpenaiFormatOne(messages[i])]

(***************************************************************************)
(* Groq wire format.                                                       *)
(***************************************************************************)
GroqToolCall(id, name, arguments) ==
    [Type |-> "function", Id |-> id,
     Function |-> [Name |-> name, Arguments |-> arguments]]

GroqMessage(role, content, toolCalls, toolCallId) ==
    [Role |-> role, Content |-> content, ToolCalls |-> toolCalls,
     ToolCallId |-> toolCallId]

GroqFormatOne(msg) ==
    IF msg.ToolIntent # <<>>
    THEN GroqMessage("assistant", "",
                     <<GroqToolCall(msg.ToolIntent[1].Id, msg.ToolIntent[1].Name,
                                    msg.ToolIntent[1].Arguments)>>, "")
    ELSE IF msg.ToolResult # <<>>
    THEN GroqMessage("tool", msg.ToolResult[1].Output, <<>>, msg.ToolResult[1].Id)
    ELSE GroqMessage(msg.Role, msg.Text, <<>>, "")

GroqFormatMessages(messages) ==
    [i \in 1..Len(messages) |-> GroqFormatOne(messages[i])]

(***************************************************************************)
(* What a provider can answer.  The n-th response of a call draws its      *)
(* items from a few kinds; ids and texts are fresh per (turn, position).   *)
(***************************************************************************)
FreshId(n, i) == "call_" \o ToString(n) \o "_" \o ToString(i)

TextOf(n) == "answer" \o ToString(n)

\* tool-call kinds: a dispatchable call, a call with an empty id, and calls
\* whose arguments or target make ExecuteToolIntent fail
CallKinds == {"good", "noid", "zero", "badjson", "wrongtype", "null", "notify"}

IdOfKind(k, n, i) == IF k = "noid" THEN "" ELSE FreshId(n, i)

NameOfKind(k) == IF k = "notify" THEN "notify" ELSE "div"

ArgsOfKind(k) ==
    CASE k = "zero"      -> ArgsZero
      [] k = "badjson"   -> ArgsBadJSON
      [] k = "wrongtype" -> ArgsWrongType
      [] k = "null"      -> ArgsNull
      [] OTHER           -> ArgsGood

InputOfKind(k) ==
    CASE k = "zero"      -> InZero
      [] k = "wrongtype" -> InWrongType
      [] k = "null"      -> InNil
      [] OTHER           -> InGood

\* item kinds that may stand anywhere in a response with several items
CoreKinds == {"text", "other", "good", "noid"}

AnthropicItem(k, n, i) ==
    CASE k = "text"  -> AnthropicContent("text", TextOf(n), "", "", InNil, "", "")
      [] k = "other" -> AnthropicContent("thinking", "", "", "", InNil, "", "")
      [] OTHER       -> AnthropicContent("tool_use", "", IdOfKind(k, n, i), NameOfKind(k),
                                         InputOfKind(k), "", "")

AnthropicKinds == {"text", "other"} \cup (CallKinds \ {"badjson"})

OpenaiContent(type, text) == [Type |-> type, Text |-> text]

OpenaiOutputItem(type, role, content, callId, name, arguments) ==
    [Type |-> type, Role |-> role, Content |-> content, CallId |-> callId,
     Name |-> name, Arguments |-> arguments]

OpenaiItem(k, n, i) ==
    CASE k = "text"    -> OpenaiOutputItem("message", "assistant",
                             <<OpenaiContent("output_text", TextOf(n))>>, "", "", "")
      [] k = "refusal" -> OpenaiOutputItem("message", "assistant",
                             <<OpenaiContent("refusal", "")>>, "", "", "")
      [] k = "other"   -> OpenaiOutputItem("reasoning", "", <<>>, "", "", "")
      [] OTHER         -> OpenaiOutputItem("function_call", "", <<>>, IdOfKind(k, n, i),
                                           NameOfKind(k), ArgsOfKind(k))

OpenaiKinds == {"text", "other", "refusal"} \cup CallKinds

GroqCallOfKind(k, n, i) == GroqToolCall(IdOfKind(k, n, i), NameOfKind(k), ArgsOfKind(k))

GroqChoice(message) == [Message |-> message]

GroqItem(k, n, i) ==
    CASE k = "text"     -> GroqChoice(GroqMessage("assistant", TextOf(n), <<>>, ""))
      [] k = "other"    -> GroqChoice(GroqMessage("assistant", "", <<>>, ""))
      [] k = "textcall" -> GroqChoice(GroqMessage("assistant", TextOf(n),
                                         <<GroqCallOfKind("good", n, i)>>, ""))
      [] k = "twocalls" -> GroqChoice(GroqMessage("assistant", "",
                                         <<GroqCallOfKind("good", n, i),
                                           GroqCallOfKind("zero", n, i + 2)>>, ""))
      [] OTHER          -> GroqChoice(GroqMessage("assistant", "",
                                         <<GroqCallOfKind(k, n, i)>>, ""))

GroqKinds == {"text", "other", "textcall", "twocalls"} \cup CallKinds

WireItem(a, k, n, i) ==
    CASE a = "anthropic" -> AnthropicItem(k, n, i)
      [] a = "openai"    -> OpenaiItem(k, n, i)
      [] OTHER           -> GroqItem(k, n, i)

KindsOf(a) ==
    CASE a = "anthropic" -> AnthropicKinds
      [] a = "openai"    -> OpenaiKinds
      [] OTHER           -> GroqKinds

\* the kinds of the items of the n-th response of a call: none, one of any
\* kind, or (in the first MultiItemResponses responses) two core ones
ResponseShapes(a, n) ==
    {<<>>} \cup {<<k>> : k \in KindsOf(a)}
           \cup (IF n <= MultiItemResponses
                 THEN {<<k1, k2>> : k1 \in CoreKinds, k2 \in CoreKinds}
                 ELSE {})

\* the decoded body: AnthropicResponse{Role, Content}, OpenaiResponse{Output},
\* GroqResponse{Choices}
WireResponse(a, shape, n) ==
    LET items == [i \in 1..Len(shape) |-> WireItem(a, shape[i], n, i)] IN
    CASE a = "anthropic" -> [Role |-> "assistant", Content |-> items]
      [] a = "openai"    -> [Output |-> items]
      [] OTHER           -> [Choices |-> items]

(***************************************************************************)
(* The decode loops of Run.  The accumulator holds the locals the loop     *)
(* assigns: msgs (allMessages, or newMessages for Groq), responseMessage,  *)
(* toolIntent, finalText, and err once the loop has returned an error.     *)
(***************************************************************************)
DecodeStart(msgs) ==
    [msgs |-> msgs, responseMessage |-> ZeroMessage, toolIntent |-> ZeroIntent,
     finalText |-> "", err |-> ""]

\* anthropic.go: the body of `for _, item := range response.Content`
AnthropicDecodeItem(acc, role, item) ==
    CASE item.Type = "text" ->
            [acc EXCEPT !.responseMessage = TextMessage(role, item.Text),
                        !.msgs = Append(@, TextMessage(role, item.Text))]
      [] item.Type = "tool_use" ->
            LET intent == ToolIntent(item.Id, item.Name, MarshalInput(item.Input)) IN
            [acc EXCEPT !.msgs = Append(@, IntentMessage(intent)),
                        !.toolIntent = intent]
      [] OTHER -> [acc EXCEPT !.err = "UnexpectedContentType"]

RECURSIVE AnthropicDecode(_, _, _)
AnthropicDecode(acc, role, items) ==
    IF items = <<>> \/ acc.err # "" THEN acc
    ELSE AnthropicDecode(AnthropicDecodeItem(acc, role, Head(items)), role, Tail(items))

\* openai.go: the inner `for _, content := range output.Content`
RECURSIVE OpenaiDecodeContent(_, _, _)
OpenaiDecodeContent(acc, role, contents) ==
    IF contents = <<>> THEN acc
    ELSE LET c == Head(contents)
             next == IF c.Type = "output_text"
                     THEN [acc EXCEPT !.responseMessage = TextMessage(role, c.Text),
                                      !.msgs = Append(@, TextMessage(role, c.Text))]
                     ELSE acc
         IN OpenaiDecodeContent(next, role, Tail(contents))

\* openai.go: the body of `for _, output := range response.Output`
OpenaiDecodeItem(acc, output) ==
    CASE output.Type = "message" -> OpenaiDecodeContent(acc, output.Role, output.Content)
      [] output.Type = "function_call" ->
            LET intent == ToolIntent(output.CallId, output.Name, output.Arguments) IN
            [acc EXCEPT !.msgs = Append(@, IntentMessage(intent)),
                        !.toolIntent = intent]
      [] OTHER -> [acc EXCEPT !.err = "UnexpectedContentType"]

RECURSIVE OpenaiDecode(_, _)
OpenaiDecode(acc, items) ==
    IF items = <<>> \/ acc.err # "" THEN acc
    ELSE OpenaiDecode(OpenaiDecodeItem(acc, Head(items)), Tail(items))

\* Every tool_intent message a Groq frame appends holds &toolIntent, the address
\* of the one local of that frame: assigning the local shows through all of them.
RetargetIntents(msgs, intent) ==
    [i \in 1..Len(msgs) |->
        IF msgs[i].ToolIntent # <<>> THEN [msgs[i] EXCEPT !.ToolIntent = <<intent>>]
        ELSE msgs[i]]

\* groq.go: the body of `for _, choice := range response.Choices`
GroqDecodeItem(acc, choice) ==
    LET msg == choice.Message IN
    IF msg.Content # ""
    THEN [acc EXCEPT !.msgs = Append(@, TextMessage("assistant", msg.Content)),
                     !.finalText = msg.Content]
    ELSE IF Len(msg.ToolCalls) > 0
    THEN LET toolCall == msg.ToolCalls[1]
             intent == ToolIntent(toolCall.Id, toolCall.Function.Name,
                                  toolCall.Function.Arguments)
         IN [acc EXCEPT !.toolIntent = intent,
                        !.msgs = Append(RetargetIntents(@, intent), IntentMessage(intent))]
    ELSE [acc EXCEPT !.err = "UnexpectedContentType"]

RECURSIVE GroqDecode(_, _)
GroqDecode(acc, choices) ==
    IF choices = <<>> \/ acc.err # "" THEN acc
    ELSE GroqDecode(GroqDecodeItem(acc, Head(choices)), Tail(choices))

Decode(a, msgs, body) ==
    CASE a = "anthropic" -> AnthropicDecode(DecodeStart(msgs), body.Role, body.Content)
      [] a = "openai"    -> OpenaiDecode(DecodeStart(msgs), body.Output)
      [] OTHER           -> GroqDecode(DecodeStart(msgs), body.Choices)

(***************************************************************************)
(* Go slices.  A history slice is its elements plus whether it is backed   *)
(* by the caller's array (from index 0, with that array's capacity).       *)
(* Slices backed by arrays Run allocated itself never reach the caller.    *)
(***************************************************************************)
NoHistory == [present |-> FALSE, elems |-> <<>>, shared |-> FALSE]

OwnSlice(elems) == [present |-> TRUE, elems |-> elems, shared |-> FALSE]

\* append(s, xs...): in place when the backing array has room, else a new array.
\* Yields the resulting slice and the caller's array afterwards.
GoAppend(s, xs, arr) ==
    IF xs = <<>> THEN [slice |-> s, arr |-> arr]
    ELSE IF s.shared /\ Len(s.elems) + Len(xs) <= Len(arr)
    THEN [slice |-> [s EXCEPT !.elems = @ \o xs],
          arr   |-> [i \in 1..Len(arr) |->
                        IF i > Len(s.elems) /\ i <= Len(s.elems) + Len(xs)
                        THEN xs[i - Len(s.elems)] ELSE arr[i]]]
    ELSE [slice |-> OwnSlice(s.elems \o xs), arr |-> arr]

(***************************************************************************)
(* Frames of Run.  pc is where the frame stands:                           *)
(*   "send"     before client.Do        "await"  request outstanding       *)
(*   "dispatch" before ExecuteToolIntent "inner"  inside the recursive Run *)
(*   "ret"      returning ret = (result, error) to its caller              *)
(* allMessages/responseMessage are locals of Anthropic.Run and Openai.Run  *)
(* (the two share one control flow after decoding); newMessages/finalText/ *)
(* temp (tempAgentResult) are locals of Groq.Run.                          *)
(***************************************************************************)
NoRet == [res |-> <<>>, err |-> ""]

ErrRet(err) == [res |-> <<>>, err |-> err]

NewFrame(prompt, hist) ==
    [prompt |-> prompt, hist |-> hist, pc |-> "send",
     allMessages |-> <<>>, responseMessage |-> ZeroMessage,
     newMessages |-> <<>>, finalText |-> "", temp |-> <<>>,
     toolIntent |-> ZeroIntent, ret |-> NoRet]

Top == stack[Len(stack)]

SetTop(f) == [stack EXCEPT ![Len(stack)] = f]

\* faulty variant: the prompt message is appended even when the prompt is empty
PromptMessagesAlways(prompt) == <<TextMessage("user", prompt)>>

PromptMessages(prompt) ==
    IF prompt # "" THEN <<TextMessage("user", prompt)>> ELSE <<>>

\* anthropic.go 267-273, openai.go 262-268
AgentResult(allMessages, responseMessage, toolIntent) ==
    [AllMessages |-> allMessages, NewMessage |-> responseMessage,
     ToolIntent |-> <<toolIntent>>, Data |-> responseMessage.Text,
     ToolArguments |-> toolIntent.Arguments]

\* groq.go 245-251 and 264-270
GroqAgentResult(allMessages, newMessages, finalText, toolIntent) ==
    [AllMessages |-> allMessages, NewMessages |-> newMessages, Text |-> finalText,
     ToolIntent |-> <<toolIntent>>, ToolArguments |-> toolIntent.Arguments]

(***************************************************************************)
(* The tool list of a request.  ConvertToProperties derives the schema of  *)
(* a parameter struct; Run ranges over the functions map, so the list has  *)
(* one tool per key, in an order Go leaves open: it is kept as a bag.      *)
(***************************************************************************)
\* strings.ToLower of the field names used here
ToLower(name) ==
    CASE name = "A"    -> "a"
      [] name = "B"    -> "b"
      [] name = "Text" -> "text"
      [] name = "X"    -> "x"
      [] name = "Y"    -> "y"
      [] OTHER         -> name

\* part_001 156-175
getBasicType(t) ==
    CASE t.Kind = "string" -> "string"
      [] t.Kind \in {"int", "int8", "int16", "int32", "int64"} -> "integer"
      [] t.Kind \in {"float32", "float64"} -> "number"
      [] t.Kind = "bool" -> "boolean"
      [] t.Kind = "struct" -> "object"
      [] t.Kind = "map" -> "object"
      [] t.Kind = "interface" -> "any"
      [] OTHER -> "object"

\* the wire name of a struct field: its json tag, else the lower-cased name
FieldName(field) == IF field.Json # "" THEN field.Json ELSE ToLower(field.Name)

\* Property: Items is a pointer (<<>> when nil), Properties a map (<<>> when nil)
Property(type, items, properties) ==
    [Type |-> type, Items |-> items, Properties |-> properties]

RECURSIVE processField(_)

\* the loops `schema[fieldName] = processField(field)` over the fields of a
\* struct, in order: a later field of the same wire name replaces an earlier one
FieldProperties(fields) ==
    [n \in {FieldName(fields[i]) : i \in DOMAIN fields} |->
        LET i == CHOOSE j \in DOMAIN fields :
                    /\ FieldName(fields[j]) = n
                    /\ \A k \in DOMAIN fields : FieldName(fields[k]) = n => k <= j
        IN processField(fields[i])]

\* part_001 121-154
processField(field) ==
    CASE field.Type.Kind = "struct" ->
            Property("object", <<>>, FieldProperties(field.Type.Fields))
      [] field.Type.Kind \in {"slice", "array"} ->
            Property("array", <<Property(getBasicType(field.Type.Elem), <<>>, <<>>)>>, <<>>)
      [] OTHER -> Property(getBasicType(field.Type), <<>>, <<>>)

\* part_001 90-119, t being the type of the value passed: one pointer is
\* followed, and what is then not a struct makes the function panic
ConvertToProperties(t) ==
    LET u == IF t.Kind = "ptr" THEN t.Elem ELSE t IN
    IF u.Kind # "struct"
    THEN [panic |-> TRUE, properties |-> <<>>, required |-> <<>>]
    ELSE [panic |-> FALSE,
          properties |-> FieldProperties(u.Fields),
          required |-> [i \in DOMAIN u.Fields |-> FieldName(u.Fields[i])]]

\* the Parameters of a tool whose registered parameter type is t: the schema of
\* reflect.New(t).Interface(), a pointer to a t
Parameters(t) ==
    [Type |-> "object", Required |-> ConvertToProperties(PtrTo(t)).required,
     Properties |-> ConvertToProperties(PtrTo(t)).properties]

\* m[k] on a Go map: the zero value when the key is absent
MapGet(m, k, zero) == IF k \in DOMAIN m THEN m[k] ELSE zero

\* reflect.New(provider.ToolStore.paramTypes[fnName]): a name without an entry
\* in paramTypes yields the nil reflect.Type and reflect.New panics; so does
\* ConvertToProperties when the registered type is not a struct
ToolsPanic(store) ==
    \E n \in DOMAIN store.functions :
        IF n \notin DOMAIN store.paramTypes THEN TRUE
        ELSE ConvertToProperties(PtrTo(store.paramTypes[n])).panic

\* what that panic carries
ToolsPanicValue(store) ==
    IF \E n \in DOMAIN store.functions : n \notin DOMAIN store.paramTypes
    THEN "reflect: New(nil)"
    ELSE "Input must be a struct or pointer to struct"

\* anthropic.go 159-170
AnthropicTool(store, fnName) ==
    [Name |-> fnName, Description |-> MapGet(store.descriptions, fnName, ""),
     Parameters |-> Parameters(store.paramTypes[fnName])]

\* openai.go 155-168
OpenaiTool(store, fnName) ==
    [Type |-> "function", Name |-> fnName,
     Description |-> MapGet(store.descriptions, fnName, ""),
     Parameters |-> Parameters(store.paramTypes[fnName]), Strict |-> TRUE]

\* groq.go 147-162
GroqTool(store, fnName) ==
    [Type |-> "function",
     Function |-> [Name |-> fnName,
                   Description |-> MapGet(store.descriptions, fnName, ""),
                   Parameters |-> Parameters(store.paramTypes[fnName]),
                   Strict |-> TRUE]]

WireTool(a, store, fnName) ==
    CASE a = "anthropic" -> AnthropicTool(store, fnName)
      [] a = "openai"    -> OpenaiTool(store, fnName)
      [] OTHER           -> GroqTool(store, fnName)

\* the loop over provider.ToolStore.functions; reqBody.Tools stays nil (and
\* is omitted) when no function is registered
Tools(a, store) == SetToBag({WireTool(a, store, n) : n \in DOMAIN store.functions})

(***************************************************************************)
(* Encoding the request (the part of Run before client.Do).                *)
(***************************************************************************)
\* anthropic.go 120-150; System is omitted from the JSON when it is ""
AnthropicEncode(f, store, system) ==
    LET fp == IF f.hist.present THEN AnthropicFormatMessages(f.hist.elems)
              ELSE [err |-> FALSE, msgs |-> <<>>]
        new == IF f.prompt # ""
               THEN <<AnthropicMessage("user",
                         AnthropicContent("text", f.prompt, "", "", InNil, "", ""))>>
               ELSE <<>>
    IN [err |-> fp.err,
        req |-> [Messages |-> fp.msgs \o new, System |-> system,
                 Tools |-> Tools("anthropic", store)]]

\* faulty variant: the developer message is sent with a new prompt only
OpenaiEncodeSystemWithPrompt(f, store, system) ==
    LET fp == IF f.hist.present THEN OpenaiFormatMessages(f.hist.elems) ELSE <<>>
        new == IF f.prompt # ""
               THEN <<OpenaiMessage("user", f.prompt, "", "", "", "", "")>> ELSE <<>>
        systemPrompt == IF system # "" /\ f.prompt # ""
                        THEN <<OpenaiMessage("developer", system, "", "", "", "", "")>>
                        ELSE <<>>
    IN [err |-> FALSE,
        req |-> [Input |-> fp \o new \o systemPrompt, Tools |-> Tools("openai", store)]]

\* openai.go 121-144: the developer message is appended after history and prompt
OpenaiEncode(f, store, system) ==
    LET fp == IF f.hist.present THEN OpenaiFormatMessages(f.hist.elems) ELSE <<>>
        new == IF f.prompt # ""
               THEN <<OpenaiMessage("user", f.prompt, "", "", "", "", "")>> ELSE <<>>
        systemPrompt == IF system # ""
                        THEN <<OpenaiMessage("developer", system, "", "", "", "", "")>>
                        ELSE <<>>
    IN [err |-> FALSE,
        req |-> [Input |-> fp \o new \o systemPrompt, Tools |-> Tools("openai", store)]]

\* groq.go 113-136: the developer message is appended after history and prompt
GroqEncode(f, store, system) ==
    LET fp == IF f.hist.present THEN GroqFormatMessages(f.hist.elems) ELSE <<>>
        new == IF f.prompt # ""
               THEN <<GroqMessage("user", f.prompt, <<>>, "")>> ELSE <<>>
        systemPrompt == IF system # ""
                        THEN <<GroqMessage("developer", system, <<>>, "")>> ELSE <<>>
    IN [err |-> FALSE,
        req |-> [Messages |-> fp \o new \o systemPrompt, Tools |-> Tools("groq", store)]]

\* faulty variant: the error of FormatMessages is dropped
EncodeIgnoresError(a, f) == FALSE

\* anthropic.go 121-125: FormatMessages fails on the history, before anything of
\* the request is built; Openai.FormatMessages and Groq.FormatMessages return
\* no error
EncodeFails(a, f) ==
    a = "anthropic" /\ f.hist.present /\ AnthropicFormatMessages(f.hist.elems).err

Encode(a, f, store, system) ==
    CASE a = "anthropic" -> AnthropicEncode(f, store, system)
      [] a = "openai"    -> OpenaiEncode(f, store, system)
      [] OTHER           -> GroqEncode(f, store, system)

(***************************************************************************)
(* After the response body is parsed: decode it and branch.                *)
(***************************************************************************)
\* anthropic.go 214-223, openai.go 210-219
StartMessages(f) ==
    (IF f.hist.present THEN f.hist.elems ELSE <<>>) \o PromptMessages(f.prompt)

\* faulty variant: the turn dispatches whenever the intent names a tool
RunDecodedDispatchesNamed(a, f, body) ==
    LET acc == Decode(a, StartMessages(f), body) IN
    IF acc.err # "" THEN [f EXCEPT !.pc = "ret", !.ret = ErrRet(acc.err)]
    ELSE LET g == [f EXCEPT !.allMessages = acc.msgs,
                            !.responseMessage = acc.responseMessage,
                            !.toolIntent = acc.toolIntent]
         IN IF acc.toolIntent.Name # "" THEN [g EXCEPT !.pc = "dispatch"]
            ELSE [g EXCEPT !.pc = "ret",
                           !.ret = [res |-> <<AgentResult(g.allMessages, g.responseMessage,
                                                          g.toolIntent)>>,
                                    err |-> ""]]

\* faulty variant: an intent decoded before the failing item is dispatched
RunDecodedDispatchesBeforeError(a, f, body) ==
    LET acc == Decode(a, StartMessages(f), body)
        g == [f EXCEPT !.allMessages = acc.msgs,
                       !.responseMessage = acc.responseMessage,
                       !.toolIntent = acc.toolIntent]
    IN IF acc.toolIntent.Id # "" THEN [g EXCEPT !.pc = "dispatch"]
       ELSE IF acc.err # "" THEN [f EXCEPT !.pc = "ret", !.ret = ErrRet(acc.err)]
       ELSE [g EXCEPT !.pc = "ret",
                      !.ret = [res |-> <<AgentResult(g.allMessages, g.responseMessage,
                                                     g.toolIntent)>>,
                               err |-> ""]]

\* anthropic.go 214-253 and 267-273 (openai.go 210-248, 262-268): the frame
\* after decoding body
RunDecoded(a, f, body) ==
    LET acc == Decode(a, StartMessages(f), body) IN
    IF acc.err # "" THEN [f EXCEPT !.pc = "ret", !.ret = ErrRet(acc.err)]
    ELSE LET g == [f EXCEPT !.allMessages = acc.msgs,
                            !.responseMessage = acc.responseMessage,
                            !.toolIntent = acc.toolIntent]
         IN IF acc.toolIntent.Id # "" THEN [g EXCEPT !.pc = "dispatch"]
            ELSE [g EXCEPT !.pc = "ret",
                           !.ret = [res |-> <<AgentResult(g.allMessages, g.responseMessage,
                                                          g.toolIntent)>>,
                                    err |-> ""]]

\* groq.go 207-244 and 264-270: the frame after decoding body, and the caller's
\* array after the append that builds AllMessages
GroqRunDecoded(f, body, arr) ==
    LET acc == Decode("groq", PromptMessages(f.prompt), body) IN
    IF acc.err # "" THEN [frame |-> [f EXCEPT !.pc = "ret", !.ret = ErrRet(acc.err)],
                          arr |-> arr]
    ELSE LET g == [f EXCEPT !.newMessages = acc.msgs,
                            !.finalText = acc.finalText,
                            !.toolIntent = acc.toolIntent]
             all == GoAppend(f.hist, g.newMessages, arr)
         IN IF acc.toolIntent.Id # ""
            THEN [frame |-> [g EXCEPT !.pc = "dispatch"], arr |-> arr]
            ELSE [frame |-> [g EXCEPT !.pc = "ret",
                               !.ret = [res |-> <<GroqAgentResult(all.slice.elems,
                                                     g.newMessages, g.finalText,
                                                     g.toolIntent)>>,
                                        err |-> ""]],
                  arr |-> all.arr]

(***************************************************************************)
(* The tool turn: ExecuteToolIntent, then the recursive Run.  Each yields  *)
(* the frame afterwards, the frame of the recursive call (if one is made)  *)
(* and what ExecuteToolIntent did.                                         *)
(***************************************************************************)
\* faulty variant: the tool_result message is not appended before the recursive call
RunDispatchDropsResult(f, store) ==
    LET x == ExecuteToolIntent(store, f.toolIntent) IN
    IF x.kind # "ok"
    THEN [frame |-> [f EXCEPT !.pc = "ret", !.ret = ErrRet(x.err)],
          push |-> <<>>, exec |-> x]
    ELSE [frame |-> [f EXCEPT !.pc = "inner"],
          push |-> <<NewFrame("", OwnSlice(f.allMessages))>>, exec |-> x]

\* faulty variant: the recursive call is made while the dispatch is still pending
RunDispatchNotAwaited(f, store) ==
    LET x == ExecuteToolIntent(store, f.toolIntent) IN
    IF x.kind # "ok"
    THEN [frame |-> [f EXCEPT !.pc = "ret", !.ret = ErrRet(x.err)],
          push |-> <<>>, exec |-> x]
    ELSE LET all == Append(f.allMessages, ResultMessage(x.result[1])) IN
         [frame |-> [f EXCEPT !.allMessages = all],
          push |-> <<NewFrame("", OwnSlice(all))>>, exec |-> x]

\* anthropic.go 253-259, openai.go 248-254
RunDispatch(f, store) ==
    LET x == ExecuteToolIntent(store, f.toolIntent) IN
    IF x.kind # "ok"
    THEN [frame |-> [f EXCEPT !.pc = "ret", !.ret = ErrRet(x.err)],
          push |-> <<>>, exec |-> x]
    ELSE LET all == Append(f.allMessages, ResultMessage(x.result[1])) IN
         [frame |-> [f EXCEPT !.pc = "inner", !.allMessages = all],
          push |-> <<NewFrame("", OwnSlice(all))>>, exec |-> x]

\* faulty variant: tempAgentResult is built after the tool_result was appended
GroqRunDispatchTempAfterResult(f, store, arr) ==
    LET tmp == GoAppend(f.hist, f.newMessages, arr)
        x == ExecuteToolIntent(store, f.toolIntent)
    IN IF x.kind # "ok"
       THEN [frame |-> [f EXCEPT !.pc = "ret",
                          !.ret = [res |-> <<GroqAgentResult(tmp.slice.elems, f.newMessages,
                                                f.finalText, f.toolIntent)>>,
                                   err |-> x.err]],
             push |-> <<>>, exec |-> x, arr |-> tmp.arr]
       ELSE LET new == Append(f.newMessages, ResultMessage(x.result[1]))
                arg == GoAppend(f.hist, new, tmp.arr)
            IN [frame |-> [f EXCEPT !.pc = "inner", !.newMessages = new,
                             !.temp = <<GroqAgentResult(arg.slice.elems, new, f.finalText,
                                                        f.toolIntent)>>],
                push |-> <<NewFrame("", [arg.slice EXCEPT !.present = TRUE])>>,
                exec |-> x, arr |-> arg.arr]

\* groq.go 244-257
GroqRunDispatch(f, store, arr) ==
    LET tmp == GoAppend(f.hist, f.newMessages, arr)
        tempAgentResult == GroqAgentResult(tmp.slice.elems, f.newMessages, f.finalText,
                                           f.toolIntent)
        x == ExecuteToolIntent(store, f.toolIntent)
    IN IF x.kind # "ok"
       THEN [frame |-> [f EXCEPT !.pc = "ret",
                          !.ret = [res |-> <<tempAgentResult>>, err |-> x.err]],
             push |-> <<>>, exec |-> x, arr |-> tmp.arr]
       ELSE LET new == Append(f.newMessages, ResultMessage(x.result[1]))
                arg == GoAppend(f.hist, new, tmp.arr)
            IN [frame |-> [f EXCEPT !.pc = "inner", !.newMessages = new,
                             !.temp = <<tempAgentResult>>],
                push |-> <<NewFrame("", [arg.slice EXCEPT !.present = TRUE])>>,
                exec |-> x, arr |-> arg.arr]

(***************************************************************************)
(* The recursive Run has returned r = (result, error) to frame f.          *)
(***************************************************************************)
\* anthropic.go 259-273, openai.go 254-268
RunResume(f, r) ==
    IF r.err # "" THEN [f EXCEPT !.pc = "ret", !.ret = ErrRet(r.err)]
    ELSE LET rm  == r.res[1].NewMessage
             all == Append(f.allMessages, rm)
         IN [f EXCEPT !.pc = "ret", !.responseMessage = rm, !.allMessages = all,
                      !.ret = [res |-> <<AgentResult(all, rm, f.toolIntent)>>,
                               err |-> ""]]

\* groq.go 257-270
GroqRunResume(f, r, arr) ==
    IF r.err # ""
    THEN [frame |-> [f EXCEPT !.pc = "ret", !.ret = [res |-> f.temp, err |-> r.err]],
          arr |-> arr]
    ELSE LET new == f.newMessages \o r.res[1].NewMessages
             all == GoAppend(f.hist, new, arr)
         IN [frame |-> [f EXCEPT !.pc = "ret", !.newMessages = new,
                          !.ret = [res |-> <<GroqAgentResult(all.slice.elems, new,
                                                f.finalText, f.toolIntent)>>,
                                   err |-> ""]],
             arr |-> all.arr]

(***************************************************************************)
(* The state machine.                                                      *)
(***************************************************************************)
NoOutcome == [status |-> "none", res |-> <<>>, err |-> ""]

NoFailure == [kind |-> "", at |-> 0]

\* the first failure of the call and how many events had happened by then
Failed(kind, events) == IF failure.kind = "" THEN [kind |-> kind, at |-> events] ELSE failure

Idle == stack = <<>> /\ outcome.status = "none"

Prompts == {"", "2+2?"}

\* the history argument: absent, or an earlier plain exchange (a user message
\* and the assistant's answer) in an array that has CallerSpare unused slots
\* after it
CallerHistories ==
    {<<>>, <<TextMessage("user", "hello"), TextMessage("assistant", "hi")>>}

\* what WithSystemPrompt is given when the option is used
ConfiguredPrompt == "be brief"

NoConversion == [input |-> <<>>, out |-> <<>>]

NoConstruction == [modelName |-> <<>>, env |-> <<>>, opts |-> <<>>, out |-> <<>>]

\* the variables of an agent and of its calls
agentVars == <<adapter, ToolStore, stack, outcome, callerArr, callerArr0, callerLen,
               callerPrompt, requests, responses, dispatched, invoked, trace,
               failure, registered, registering, SystemPrompt>>

\* an agent as NewAgent returns it, before any call: its SystemPrompt is system
\* and its ToolStore empty
NewAgentState(a, system) ==
    /\ adapter = a
    /\ SystemPrompt = system
    /\ ToolStore = EmptyStore
    /\ stack = <<>>
    /\ outcome = NoOutcome
    /\ callerArr = <<>>
    /\ callerArr0 = <<>>
    /\ callerLen = 0
    /\ callerPrompt = ""
    /\ requests = <<>>
    /\ responses = <<>>
    /\ dispatched = <<>>
    /\ invoked = <<>>
    /\ trace = <<>>
    /\ failure = NoFailure
    /\ registered = <<>>
    /\ registering = <<>>

InitConfig(system) ==
    /\ \E a \in Adapters : NewAgentState(a, system)
    /\ conversion = NoConversion
    /\ construction = NoConstruction

\* an agent constructed without WithSystemPrompt
Init == InitConfig("")

\* Agent.RegisterTool (anthropic.go 276-279, openai.go 271-274, groq.go 273-276):
\* the adapter calls AgentConfig.RegisterTool, drops what it returns and
\* returns nil
AgentRegisterTool(store, fn, paramType, description) ==
    [store |-> RegisterToolStore(store, fn, paramType, description).store,
     err |-> ""]

\* the caller registers a tool between construction and Run
RegisterTool ==
    /\ Idle
    /\ registering = <<>>
    /\ \E r \in Registrations :
          LET c == AgentRegisterTool(ToolStore, r.fn, r.paramType, r.description)
          IN /\ ToolStore' = c.store
             /\ registered' = <<[reg |-> r, before |-> ToolStore, err |-> c.err]>>
    /\ UNCHANGED <<adapter, stack, outcome, callerArr, callerArr0, callerLen,
                   callerPrompt, requests, responses, dispatched, invoked, trace,
                   failure, registering>>
    /\ UNCHANGED <<SystemPrompt, conversion, construction>>

\* the caller's top-level agent.Run(prompt) or agent.Run(prompt, history), with
\* the arguments drawn from the given sets
CallWith(prompts, histories) ==
    /\ Idle
    /\ \E prompt \in prompts, h \in histories :
          LET arr == IF h = <<>> THEN <<>>
                     ELSE h \o [i \in 1..CallerSpare |-> ZeroMessage]
              hist == IF h = <<>> THEN NoHistory
                      ELSE [present |-> TRUE, elems |-> h, shared |-> TRUE]
          IN /\ stack' = <<NewFrame(prompt, hist)>>
             /\ callerArr' = arr
             /\ callerArr0' = arr
             /\ callerLen' = Len(h)
             /\ callerPrompt' = prompt
    /\ registered' = <<>>
    /\ UNCHANGED registering
    /\ UNCHANGED <<adapter, ToolStore, outcome, requests, responses, dispatched,
                   invoked, trace, failure>>
    /\ UNCHANGED <<SystemPrompt, conversion, construction>>

Call == CallWith(Prompts, CallerHistories)

\* Run up to client.Do: encode and put the request on the wire
SendRequest ==
    /\ stack # <<>>
    /\ Top.pc = "send"
    /\ Len(requests) < MaxRequests
    /\ LET e == Encode(adapter, Top, ToolStore, SystemPrompt) IN
       IF EncodeFails(adapter, Top)
       THEN /\ stack' = SetTop([Top EXCEPT !.pc = "ret", !.ret = ErrRet("EncodeError")])
            /\ failure' = Failed("EncodeError", Len(trace))
            /\ UNCHANGED <<requests, trace, outcome>>
       ELSE IF ToolsPanic(ToolStore)
       THEN /\ stack' = <<>>
            /\ outcome' = [status |-> "panic", res |-> <<>>, err |-> ToolsPanicValue(ToolStore)]
            /\ failure' = Failed("panic", Len(trace))
            /\ UNCHANGED <<requests, trace>>
       ELSE /\ stack' = SetTop([Top EXCEPT !.pc = "await"])
            /\ requests' = Append(requests, e.req)
            /\ trace' = Append(trace, "send")
            /\ UNCHANGED <<failure, outcome>>
    /\ UNCHANGED <<registered, registering>>
    /\ UNCHANGED <<adapter, ToolStore, callerArr, callerArr0, callerLen,
                   callerPrompt, responses, dispatched, invoked>>
    /\ UNCHANGED <<SystemPrompt, conversion, construction>>

\* faulty variant: the request is sent again after a failure
RunRequestRetried(f, err) == [f EXCEPT !.pc = "send"]

\* `if err != nil { return nil, err }` after client.Do, io.ReadAll and
\* json.Unmarshal of the body: the frame returns at once
RunRequestFailed(f, err) == [f EXCEPT !.pc = "ret", !.ret = ErrRet(err)]

\* client.Do or io.ReadAll fails (TransportError), or the body is not the JSON of
\* a response (DecodeError): Run returns nil and the error
RequestFails ==
    /\ stack # <<>>
    /\ Top.pc = "await"
    /\ \E err \in {"TransportError", "DecodeError"} :
          /\ stack' = SetTop(RunRequestFailed(Top, err))
          /\ failure' = Failed(err, Len(trace))
    /\ UNCHANGED <<registered, registering>>
    /\ UNCHANGED <<adapter, ToolStore, outcome, callerArr, callerArr0, callerLen,
                   callerPrompt, requests, responses, dispatched, invoked, trace>>
    /\ UNCHANGED <<SystemPrompt, conversion, construction>>

\* the response arrives and is decoded; its items are of one of the given shapes
ReceiveWith(shapes) ==
    /\ stack # <<>>
    /\ Top.pc = "await"
    /\ \E shape \in shapes :
          LET body == WireResponse(adapter, shape, Len(responses) + 1)
              d == IF adapter = "groq" THEN GroqRunDecoded(Top, body, callerArr)
                   ELSE [frame |-> RunDecoded(adapter, Top, body), arr |-> callerArr]
          IN /\ stack' = SetTop(d.frame)
             /\ callerArr' = d.arr
             /\ responses' = Append(responses, [shape |-> shape, body |-> body])
             /\ trace' = Append(trace, "recv")
             /\ failure' = IF d.frame.ret.err # ""
                           THEN Failed(d.frame.ret.err, Len(trace) + 1) ELSE failure
    /\ UNCHANGED <<registered, registering>>
    /\ UNCHANGED <<adapter, ToolStore, outcome, callerArr0, callerLen, callerPrompt,
                   requests, dispatched, invoked>>
    /\ UNCHANGED <<SystemPrompt, conversion, construction>>

Receive == ReceiveWith(ResponseShapes(adapter, Len(responses) + 1))

\* the tool turn: ExecuteToolIntent and, when it succeeds, the recursive Run is
\* entered; a panic unwinds every frame of the chain
Dispatch ==
    /\ stack # <<>>
    /\ Top.pc = "dispatch"
    /\ LET d == IF adapter = "groq" THEN GroqRunDispatch(Top, ToolStore, callerArr)
                ELSE RunDispatch(Top, ToolStore) @@ [arr |-> callerArr]
       IN /\ dispatched' = Append(dispatched, Top.toolIntent)
          /\ invoked' = invoked \o d.exec.called
          /\ trace' = Append(trace, "dispatch")
          /\ callerArr' = d.arr
          /\ failure' = IF d.exec.kind # "ok"
                        THEN Failed(d.exec.err, Len(trace) + 1) ELSE failure
          /\ IF d.exec.kind = "panic"
             THEN /\ stack' = <<>>
                  /\ outcome' = [status |-> "panic", res |-> <<>>, err |-> "panic"]
             ELSE /\ stack' = SetTop(d.frame) \o d.push
                  /\ UNCHANGED outcome
    /\ UNCHANGED <<registered, registering>>
    /\ UNCHANGED <<adapter, ToolStore, callerArr0, callerLen, callerPrompt, requests,
                   responses>>
    /\ UNCHANGED <<SystemPrompt, conversion, construction>>

\* a frame returns: to the frame that made the recursive call, or to the caller
Return ==
    /\ stack # <<>>
    /\ Top.pc = "ret"
    /\ IF Len(stack) = 1
       THEN /\ stack' = <<>>
            /\ outcome' = [status |-> IF Top.ret.err = "" THEN "ok" ELSE "error",
                           res |-> Top.ret.res, err |-> Top.ret.err]
            /\ UNCHANGED callerArr
       ELSE LET parent == stack[Len(stack) - 1]
                d == IF adapter = "groq" THEN GroqRunResume(parent, Top.ret, callerArr)
                     ELSE [frame |-> RunResume(parent, Top.ret), arr |-> callerArr]
            IN /\ stack' = Append(SubSeq(stack, 1, Len(stack) - 2), d.frame)
               /\ callerArr' = d.arr
               /\ UNCHANGED outcome
    /\ UNCHANGED <<registered, registering>>
    /\ UNCHANGED <<adapter, ToolStore, callerArr0, callerLen, callerPrompt, requests,
                   responses, dispatched, invoked, trace, failure>>
    /\ UNCHANGED <<SystemPrompt, conversion, construction>>

Next ==
    \/ RegisterTool
    \/ Call
    \/ SendRequest
    \/ RequestFails
    \/ Receive
    \/ Dispatch
    \/ Return

Spec == Init /\ [][Next]_vars

(***************************************************************************)
(* The same agent used from two goroutines: while a Run is in flight,      *)
(* another goroutine calls Agent.RegisterTool.  AgentConfig.RegisterTool   *)
(* writes the three maps of the ToolStore one after the other and takes no *)
(* lock; registering holds the call and the number of the next write (4    *)
(* once the call has returned).  One such call is followed, beside a Run   *)
(* with a prompt whose responses are a text or one tool call.              *)
(***************************************************************************)
ConcurrentCall == CallWith({"2+2?"}, {<<>>})

ConcurrentReceive == ReceiveWith({<<"text">>, <<"good">>})

\* the calls that write the store (the check of NumIn has passed) and change it
ConcurrentRegistrations ==
    {r \in Registrations :
        /\ r.fn.numIn = 1
        /\ MapGet(ToolStore.functions, getToolName(r.fn), <<>>) # r.fn}

\* part_001 187-197: the call is made and has passed its checks
RegisterBegin ==
    /\ stack # <<>>
    /\ registering = <<>>
    /\ \E r \in ConcurrentRegistrations :
          registering' = <<[reg |-> r, write |-> 1]>>
    /\ UNCHANGED <<adapter, ToolStore, stack, outcome, callerArr, callerArr0,
                   callerLen, callerPrompt, requests, responses, dispatched,
                   invoked, trace, failure, registered>>
    /\ UNCHANGED <<SystemPrompt, conversion, construction>>

\* part_001 198-201: the next of the three map writes; the call returns nil
\* after the last
RegisterWrite ==
    /\ registering # <<>>
    /\ registering[1].write <= 3
    /\ LET r == registering[1].reg
           n == getToolName(r.fn)
           w == registering[1].write
       IN /\ ToolStore' =
                CASE w = 1 -> [ToolStore EXCEPT
                                  !.functions = MapSet(ToolStore.functions, n, r.fn)]
                  [] w = 2 -> [ToolStore EXCEPT
                                  !.paramTypes = MapSet(ToolStore.paramTypes, n,
                                                        r.paramType)]
                  [] OTHER -> [ToolStore EXCEPT
                                  !.descriptions = MapSet(ToolStore.descriptions, n,
                                                          r.description)]
          /\ registering' = <<[reg |-> r, write |-> w + 1]>>
    /\ UNCHANGED <<adapter, stack, outcome, callerArr, callerArr0, callerLen,
                   callerPrompt, requests, responses, dispatched, invoked, trace,
                   failure, registered>>
    /\ UNCHANGED <<SystemPrompt, conversion, construction>>

\* the next step of the Run in flight reads the maps of the store: the loop
\* over functions when the request is encoded, the lookups of ExecuteToolIntent
RegistryRead ==
    /\ stack # <<>>
    /\ \/ Top.pc = "send" /\ Len(requests) < MaxRequests
       \/ Top.pc = "dispatch"

\* the next step of the other goroutine writes a map of the store
RegistryWrite == registering # <<>> /\ registering[1].write <= 3

\* an unsynchronized read and write of the same Go map run at the same time:
\* the runtime may stop the process (fatal error: concurrent map read and map
\* write); when it does not, the steps take effect in either order
MapFault ==
    /\ RegistryRead
    /\ RegistryWrite
    /\ stack' = <<>>
    /\ registering' = <<[reg |-> registering[1].reg, write |-> 4]>>
    /\ outcome' = [status |-> "panic", res |-> <<>>, err |-> "concurrent map access"]
    /\ failure' = Failed("panic", Len(trace))
    /\ UNCHANGED <<adapter, ToolStore, callerArr, callerArr0, callerLen,
                   callerPrompt, requests, responses, dispatched, invoked, trace,
                   registered>>
    /\ UNCHANGED <<SystemPrompt, conversion, construction>>

NextConcurrent ==
    \/ RegisterTool
    \/ ConcurrentCall
    \/ SendRequest
    \/ RequestFails
    \/ ConcurrentReceive
    \/ Dispatch
    \/ Return
    \/ RegisterBegin
    \/ RegisterWrite
    \/ MapFault

SpecConcurrent == Init /\ [][NextConcurrent]_vars

\* the agent was constructed with WithSystemPrompt(ConfiguredPrompt)
InitSystemPrompt == InitConfig(ConfiguredPrompt)

SpecSystemPrompt == InitSystemPrompt /\ [][Next]_vars

(***************************************************************************)
(* Schema derivation on its own: ConvertToProperties applied to a value of *)
(* one of the types below.                                                 *)
(***************************************************************************)
BasicKinds ==
    {"string", "bool", "int", "int8", "int16", "int32", "int64",
     "uint", "uint8", "uint16", "uint32", "uint64", "float32", "float64",
     "map", "interface"}

\* a struct with an unsigned field and a slice, used as a nested struct
Inner ==
    StructOf("Inner", <<StructField("N", "n", Basic("uint8")),
                        StructField("Tags", "tags", SliceOf(Basic("string")))>>)

\* the types of the fields: every basic kind, slices of every basic kind,
\* arrays, pointers, nested structs, and slices of structs and of slices
FieldTypes ==
    {Basic(k) : k \in BasicKinds}
        \cup {SliceOf(Basic(k)) : k \in BasicKinds}
        \cup {ArrayOf(Basic("int")), ArrayOf(Basic("uint"))}
        \cup {PtrTo(Basic("int")), PtrTo(DivParams)}
        \cup {DivParams, Inner, StructOf("Outer", <<StructField("In", "in", Inner)>>)}
        \cup {SliceOf(DivParams), SliceOf(SliceOf(Basic("int"))),
              SliceOf(PtrTo(Basic("int")))}

\* the types of the values ConvertToProperties is applied to: pointers to
\* structs of one field or two, a struct itself, and values that are no structs
SchemaInputs ==
    {PtrTo(StructOf("P", <<StructField("X", "", t)>>)) : t \in FieldTypes}
        \cup {PtrTo(StructOf("P", <<StructField("X", "x", Basic(k)),
                                    StructField("Y", "x", Basic("string"))>>)) :
                 k \in BasicKinds}
        \cup {DivParams, PtrTo(DivParams), PtrTo(PtrTo(DivParams)),
              Basic("int"), PtrTo(Basic("string")), SliceOf(DivParams)}

InitSchema ==
    /\ NewAgentState("anthropic", "")
    /\ construction = NoConstruction
    /\ conversion \in {[input |-> <<t>>, out |-> <<>>] : t \in SchemaInputs}

\* the call of ConvertToProperties
Convert ==
    /\ conversion.input # <<>>
    /\ conversion.out = <<>>
    /\ conversion' = [conversion EXCEPT !.out = <<ConvertToProperties(conversion.input[1])>>]
    /\ UNCHANGED <<agentVars, construction>>

NextSchema == Convert

SpecSchema == InitSchema /\ [][NextSchema]_vars

(***************************************************************************)
(* Construction on its own: NewAgent applied to a model string, in an      *)
(* environment, with options.  A model string is kept as the sequence of   *)
(* its parts, each ":" being a part of its own.                            *)
(***************************************************************************)
\* models.go 3-10
AvailableModels ==
    {<<"openai", ":", "gpt-4o">>, <<"openai", ":", "gpt-4o-mini">>,
     <<"openai", ":", "o1-mini">>,
     <<"anthropic", ":", "claude-3-5-sonnet-latest">>,
     <<"anthropic", ":", "claude-3-7-sonnet-latest">>,
     <<"groq", ":", "llama-3.3-70b-versatile">>}

\* the model strings a caller passes: the listed ones, an unlisted model of a
\* known provider, a listed model under another provider, an unknown provider,
\* strings without separator, the empty string, a listed string with a suffix
ModelNames ==
    AvailableModels
        \cup {<<"openai", ":", "gpt-5">>, <<"groq", ":", "gpt-4o">>,
              <<"mistral", ":", "large">>, <<"gpt-4o">>, <<"openai">>, <<>>,
              <<"openai", ":", "gpt-4o", ":", "x">>, <<":", "gpt-4o">>}

\* the string a sequence of parts stands for
RECURSIVE Join(_)
Join(parts) == IF parts = <<>> THEN "" ELSE parts[1] \o Join(Tail(parts))

\* strings.Cut(s, ":"): the text before the first separator, the text after
\* it, and whether there is one
Cut(s) ==
    IF \E i \in DOMAIN s : s[i] = ":"
    THEN LET i == CHOOSE j \in DOMAIN s :
                    s[j] = ":" /\ \A k \in 1..(j - 1) : s[k] # ":"
         IN [before |-> Join(SubSeq(s, 1, i - 1)),
             after |-> Join(SubSeq(s, i + 1, Len(s))), found |-> TRUE]
    ELSE [before |-> Join(s), after |-> "", found |-> FALSE]

\* strings.ToUpper of the provider names used here
ToUpper(name) ==
    CASE name = "openai"    -> "OPENAI"
      [] name = "anthropic" -> "ANTHROPIC"
      [] name = "groq"      -> "GROQ"
      [] name = "mistral"   -> "MISTRAL"
      [] OTHER              -> name

\* the environment: the variables that are set, with their values (a variable
\* may be set to the empty string); names are case-sensitive
EnvNames == {"OPENAI_API_KEY", "ANTHROPIC_API_KEY", "GROQ_API_KEY", "openai_api_key"}

Environments ==
    {[n \in S |-> "key of " \o n] : S \in SUBSET EnvNames}
        \cup {[n \in {"OPENAI_API_KEY"} |-> ""]}

\* os.LookupEnv
LookupEnv(env, name) ==
    IF name \in DOMAIN env THEN [value |-> env[name], found |-> TRUE]
    ELSE [value |-> "", found |-> FALSE]

\* provider.go 44-60: an option sets one field of the AgentConfig
WithSystemPrompt(prompt) == [field |-> "SystemPrompt", value |-> prompt]

WithReasoningEffort(reasoningEffort) ==
    [field |-> "ReasoningEffort", value |-> reasoningEffort]

WithTemperature(temperature) == [field |-> "Temperature", value |-> temperature]

Options ==
    {WithSystemPrompt("be brief"), WithSystemPrompt("be kind"),
     WithReasoningEffort("low"), WithTemperature(1)}

\* the longest list of options a caller passes
MaxOptions == 2

OptionLists == UNION {[1..n -> Options] : n \in 0..MaxOptions}

\* opt(&config)
ApplyOption(config, opt) ==
    CASE opt.field = "SystemPrompt"    -> [config EXCEPT !.SystemPrompt = opt.value]
      [] opt.field = "ReasoningEffort" -> [config EXCEPT !.ReasoningEffort = opt.value]
      [] OTHER                         -> [config EXCEPT !.Temperature = opt.value]

\* provider.go 82-84: `for _, opt := range opts { opt(&config) }`
ApplyOptions(config, opts) ==
    LET R[i \in 0..Len(opts)] ==
            IF i = 0 THEN config ELSE ApplyOption(R[i - 1], opts[i])
    IN R[Len(opts)]

\* AgentConfig as NewAgent first fills it (provider.go 75-80)
AgentConfig(model, apiKey) ==
    [ModelName |-> model, ApiKey |-> apiKey, SystemPrompt |-> "",
     ReasoningEffort |-> "", Temperature |-> 0, ToolStore |-> EmptyStore]

NoAgent(err) == [agent |-> <<>>, err |-> err]

\* faulty variant: a missing key is not an error, the agent gets an empty key
NewAgentWithoutKey(modelName, env, opts) ==
    IF modelName \notin AvailableModels THEN NoAgent("model not available")
    ELSE LET cut == Cut(modelName) IN
         IF ~cut.found THEN NoAgent("seperator not found in model name")
         ELSE LET key == LookupEnv(env, ToUpper(cut.before) \o "_API_KEY")
                  config == ApplyOptions(AgentConfig(cut.after, key.value), opts)
              IN IF cut.before \in {"anthropic", "openai", "groq"}
                 THEN [agent |-> <<[adapter |-> cut.before, config |-> config]>>,
                       err |-> ""]
                 ELSE NoAgent("unknown provider!")

\* provider.go 62-96: the agent (its adapter and its config) and the error
NewAgent(modelName, env, opts) ==
    IF modelName \notin AvailableModels THEN NoAgent("model not available")
    ELSE LET cut == Cut(modelName) IN
         IF ~cut.found THEN NoAgent("seperator not found in model name")
         ELSE LET key == LookupEnv(env, ToUpper(cut.before) \o "_API_KEY") IN
              IF ~key.found THEN NoAgent("api key not found")
              ELSE LET config == ApplyOptions(AgentConfig(cut.after, key.value), opts)
                   IN IF cut.before \in {"anthropic", "openai", "groq"}
                      THEN [agent |-> <<[adapter |-> cut.before, config |-> config]>>,
                            err |-> ""]
                      ELSE NoAgent("unknown provider!")

InitNewAgent ==
    /\ NewAgentState("anthropic", "")
    /\ conversion = NoConversion
    /\ construction \in {[modelName |-> m, env |-> e, opts |-> o, out |-> <<>>] :
                            m \in ModelNames, e \in Environments, o \in OptionLists}

\* the call of NewAgent
Construct ==
    /\ construction.out = <<>>
    /\ construction' = [construction EXCEPT
                           !.out = <<NewAgent(construction.modelName, construction.env,
                                              construction.opts)>>]
    /\ UNCHANGED <<agentVars, conversion>>

NextNewAgent == Construct

SpecNewAgent == InitNewAgent /\ [][NextNewAgent]_vars

(***************************************************************************)
(* Properties.                                                             *)
(***************************************************************************)
Done == outcome.status # "none"

\* the history the caller passed (empty when absent)
CallerHistory == SubSeq(callerArr0, 1, callerLen)

Shapes == [i \in 1..Len(responses) |-> responses[i].shape]

\* the first k responses are each one dispatchable tool call of a registered tool
ToolTurns(k) ==
    /\ k <= Len(responses)
    /\ \A i \in 1..k : responses[i].shape = <<"good">>
    /\ "div" \in DOMAIN ToolStore.functions

\* k tool turns followed by a final text-only response
ResolvedAfter(k) ==
    /\ Len(responses) = k + 1
    /\ ToolTurns(k)
    /\ responses[k + 1].shape = <<"text">>

\* the final text of a result: Data (Anthropic, OpenAI) or Text (Groq)
FinalText(res) == IF adapter = "groq" THEN res.Text ELSE res.Data

\* the messages of the i-th tool turn as the claims describe them
TurnIntent(i) == ToolIntent(FreshId(i, 1), "div", ArgsGood)

TurnMessages(i) ==
    << IntentMessage(TurnIntent(i)), ResultMessage(ToolResult(FreshId(i, 1), "2")) >>

UserPrompt == IF callerPrompt = "" THEN <<>> ELSE <<TextMessage("user", callerPrompt)>>

\* a turn limit a caller would configure; AgentConfig has no field for it and no
\* Run consults one
MaxTurns == 2

\* C1: when every response is a fresh dispatchable tool call, a Run sends at most
\* the configured maximum number of requests (here MaxTurns) before it ends.
C1_TerminatesWithinMaxTurns ==
    ToolTurns(Len(responses)) => Len(requests) <= MaxTurns

\* C2: with a non-empty prompt, one tool turn and then a text T, the returned full
\* history is the caller's history followed by exactly user prompt, tool_intent,
\* tool_result, assistant T.
C2_HistoryAfterOneToolTurn ==
    (Done /\ callerPrompt # "" /\ ResolvedAfter(1)) =>
        /\ outcome.status = "ok"
        /\ outcome.res[1].AllMessages =
              CallerHistory \o <<TextMessage("user", callerPrompt)>>
                            \o TurnMessages(1)
                            \o <<TextMessage("assistant", TextOf(2))>>

C2_Witness ==
    /\ outcome.status = "ok"
    /\ callerPrompt # ""
    /\ callerLen > 0
    /\ ResolvedAfter(1)

\* C3: after k >= 2 consecutive tool turns and a final text T the full history
\* returned to the caller holds every turn: caller history, prompt, intent_1,
\* result_1, ..., intent_k, result_k, then T.
C3_HistoryHoldsEveryTurn ==
    (Done /\ ResolvedAfter(2)) =>
        /\ outcome.status = "ok"
        /\ outcome.res[1].AllMessages =
              CallerHistory \o UserPrompt \o TurnMessages(1) \o TurnMessages(2)
                            \o <<TextMessage("assistant", TextOf(3))>>

\* C4: after one or more tool turns followed by a terminal text T, the final text
\* of the result handed to the caller is T.
C4_FinalTextIsTerminalText ==
    \A k \in 1..MaxRequests :
        (Done /\ ResolvedAfter(k)) =>
            /\ outcome.status = "ok"
            /\ FinalText(outcome.res[1]) = TextOf(k + 1)

C6_CallerHistoryUntouched == callerArr = callerArr0

\* C7: any failure at any depth ends the call with an error handed to the
\* original caller, and no request or dispatch follows the failure.
C7_FailureSurfacesAsError ==
    /\ failure.kind # "" => Len(trace) = failure.at
    /\ (Done /\ failure.kind # "") =>
          (outcome.status = "error" /\ outcome.err = failure.kind)

\* C8: dispatching an intent whose name is not registered yields ToolNotFound and
\* no result, invokes no callable and leaves the registry as it was.
C8_UnregisteredToolNotFound ==
    [][ (stack # <<>> /\ Top.pc = "dispatch"
            /\ Top.toolIntent.Name \notin DOMAIN ToolStore.functions)
        => /\ ExecuteToolIntent(ToolStore, Top.toolIntent) = DispatchError("ToolNotFound")
           /\ invoked' = invoked
           /\ ToolStore' = ToolStore
           /\ Len(stack') = Len(stack)
           /\ stack'[Len(stack)].pc = "ret"
           /\ stack'[Len(stack)].ret.err = "ToolNotFound"
           /\ stack'[Len(stack)].allMessages = Top.allMessages
           /\ stack'[Len(stack)].newMessages = Top.newMessages ]_vars

C8_Witness ==
    /\ failure.kind = "ToolNotFound"
    /\ DOMAIN ToolStore.functions # {}
    /\ dispatched # <<>>
    /\ invoked = <<>>

\* the intent of the last dispatch
LastDispatched == dispatched[Len(dispatched)]

\* C9: dispatching a registered tool with arguments that are malformed JSON or do
\* not fit the parameter struct fails with ArgumentDecodeError, the callable is
\* not invoked, and the Run fails with that error.
C9_BadArgumentsFailDecode ==
    (Done /\ dispatched # <<>>
          /\ LastDispatched.Name \in DOMAIN ToolStore.functions
          /\ LastDispatched.Arguments \in {ArgsBadJSON, ArgsWrongType, ArgsNull}) =>
        /\ outcome.status = "error"
        /\ outcome.err = "ArgumentDecodeError"
        /\ Len(invoked) = Len(dispatched) - 1

\* C10: when the registered callable fails, or returns no value, dispatch yields a
\* DispatchError value and the call ends with that error, not with a crash.
C10_CallableFailureIsDispatchError ==
    (Done /\ dispatched # <<>>
          /\ LastDispatched.Name \in DOMAIN ToolStore.functions
          /\ \/ LastDispatched.Name = "notify" /\ LastDispatched.Arguments = ArgsGood
             \/ /\ LastDispatched.Name = "div"
                /\ LastDispatched.Arguments = ArgsZero
                /\ ToolStore.functions["div"] = FnDiv) =>
        /\ outcome.status = "error"
        /\ outcome.err = "DispatchError"

(***************************************************************************)
(* Tool results, decoding, failure policy, sequencing, registry, encoding. *)
(***************************************************************************)
\* ids of the tool_result messages of a history, in order
ResultIds(msgs) ==
    LET R[i \in 0..Len(msgs)] ==
            IF i = 0 THEN <<>>
            ELSE IF msgs[i].ToolResult # <<>>
                 THEN Append(R[i - 1], msgs[i].ToolResult[1].Id)
                 ELSE R[i - 1]
    IN R[Len(msgs)]

DispatchedIds == {dispatched[k].Id : k \in DOMAIN dispatched}

\* C11: the ToolResult that dispatch produces carries the id of the dispatched
\* ToolIntent, so the tool_result message Run appends (the last message of the
\* history handed to the k-th recursive frame) has the id of the k-th dispatched
\* intent, and every tool_result of a returned history has a dispatched id.
C11_ResultCarriesIntentId ==
    /\ \A k \in DOMAIN stack :
          /\ (stack[k].pc = "dispatch"
              /\ ExecuteToolIntent(ToolStore, stack[k].toolIntent).kind = "ok") =>
                ExecuteToolIntent(ToolStore, stack[k].toolIntent).result[1].Id
                    = stack[k].toolIntent.Id
          /\ k >= 2 =>
                LET h == stack[k].hist.elems
                IN /\ h # <<>>
                   /\ h[Len(h)].ToolResult # <<>>
                   /\ h[Len(h)].ToolResult[1].Id = dispatched[k - 1].Id
    /\ (Done /\ outcome.res # <<>>) =>
          \A i \in DOMAIN ResultIds(outcome.res[1].AllMessages) :
              ResultIds(outcome.res[1].AllMessages)[i] \in DispatchedIds

\* a Run that made two tool turns has returned a history with both results
C11_Witness ==
    /\ Done
    /\ outcome.status = "ok"
    /\ Len(dispatched) = 2
    /\ dispatched[1].Id # dispatched[2].Id
    /\ adapter = "groq"
    /\ ResultIds(outcome.res[1].AllMessages) = <<dispatched[1].Id, dispatched[2].Id>>

\* the messages a frame has appended while decoding its response
TurnDecoded(f) ==
    IF adapter = "groq"
    THEN SubSeq(f.newMessages, Len(PromptMessages(f.prompt)) + 1, Len(f.newMessages))
    ELSE SubSeq(f.allMessages, Len(StartMessages(f)) + 1, Len(f.allMessages))

IsAssistantText(m) ==
    m.ToolIntent = <<>> /\ m.ToolResult = <<>> /\ m.Role = "assistant"

\* C12: decoding one response yields a text message or a tool intent, never both:
\* no frame that goes on to dispatch an intent has also recorded an assistant
\* text message from the same response.
C12_DecodeYieldsAtMostOne ==
    \A k \in DOMAIN stack :
        stack[k].pc = "dispatch" =>
            \A i \in DOMAIN TurnDecoded(stack[k]) :
                ~IsAssistantText(TurnDecoded(stack[k])[i])

\* the tool-call items of a response with item kinds shape, as intents, in
\* response order (n is the number of the response)
CallsOfItem(k, n, i) ==
    CASE k \in CallKinds -> <<ToolIntent(IdOfKind(k, n, i), NameOfKind(k), ArgsOfKind(k))>>
      [] k = "textcall"  -> <<ToolIntent(FreshId(n, i), "div", ArgsGood)>>
      [] k = "twocalls"  -> <<ToolIntent(FreshId(n, i), "div", ArgsGood),
                              ToolIntent(FreshId(n, i + 2), "div", ArgsZero)>>
      [] OTHER           -> <<>>

CallsOfShape(shape, n) ==
    LET R[i \in 0..Len(shape)] ==
            IF i = 0 THEN <<>> ELSE R[i - 1] \o CallsOfItem(shape[i], n, i)
    IN R[Len(shape)]

LastCalls == CallsOfShape(responses[Len(responses)].shape, Len(responses))

\* the tool_intent messages among msgs, in order
IntentMessages(msgs) ==
    LET R[i \in 0..Len(msgs)] ==
            IF i = 0 THEN <<>>
            ELSE IF msgs[i].ToolIntent # <<>> THEN Append(R[i - 1], msgs[i])
                 ELSE R[i - 1]
    IN R[Len(msgs)]

\* C13: a response with several tool-call items (the last with a non-empty id)
\* leaves one tool_intent message per item in history, in response order, and
\* the one dispatch of that turn is of the last item; no response is followed by
\* more than one dispatch.
C13_LastOfSeveralCallsDispatched ==
    /\ Len(dispatched) <= Len(responses)
    /\ (stack # <<>> /\ Top.pc = "dispatch" /\ Len(LastCalls) >= 2) =>
          /\ IntentMessages(TurnDecoded(Top))
                = [i \in 1..Len(LastCalls) |-> IntentMessage(LastCalls[i])]
          /\ Top.toolIntent = LastCalls[Len(LastCalls)]
    /\ (responses # <<>> /\ Len(dispatched) = Len(responses) /\ Len(LastCalls) >= 2
          /\ LastCalls[Len(LastCalls)].Id # "") =>
          LastDispatched = LastCalls[Len(LastCalls)]

\* the call has decoded a response with a content item of a type the adapter
\* does not know ("other": at the level of the output items; "refusal": nested in
\* the content of an OpenAI message item)
SawUnknownItem ==
    \E k \in DOMAIN responses : \E i \in DOMAIN responses[k].shape :
        responses[k].shape[i] \in {"other", "refusal"}

\* C14: once a response contained a content item of an unrecognized type, at
\* either level, the call ends with the error UnexpectedContentType: it does not
\* return success and the item is not skipped.
C14_UnknownItemIsFatal ==
    (Done /\ SawUnknownItem) =>
        /\ outcome.status = "error"
        /\ outcome.err = "UnexpectedContentType"

\* C15: one policy for partial history on failure: where the tool dispatch of a
\* frame fails, or the recursive call of a frame has failed, the Run of
\* Anthropic/OpenAI and the Run of Groq return the same kind of outcome with
\* the error (both no result, or both a result holding the history so far).
C15_UniformFailurePolicy ==
    /\ (stack # <<>> /\ Top.pc = "dispatch"
          /\ ExecuteToolIntent(ToolStore, Top.toolIntent).kind = "error") =>
          ((RunDispatch(Top, ToolStore).frame.ret.res = <<>>)
             <=> (GroqRunDispatch(Top, ToolStore, callerArr).frame.ret.res = <<>>))
    /\ (Len(stack) >= 2 /\ Top.pc = "ret" /\ Top.ret.err # "") =>
          ((RunResume(stack[Len(stack) - 1], Top.ret).ret.res = <<>>)
             <=> (GroqRunResume(stack[Len(stack) - 1], Top.ret, callerArr).frame.ret.res
                     = <<>>))

\* C16: the events of one top-level Run are strictly sequential.  Every frame
\* below the top one is blocked in its recursive call (so at most one request is
\* outstanding and at most one dispatch is pending, both in the top frame); a
\* dispatch directly follows the decoding of a response, a request other than
\* the first directly follows a dispatch, and a response a request.
C16_StrictlySequential ==
    /\ \A k \in 1..(Len(stack) - 1) : stack[k].pc = "inner"
    /\ Cardinality({k \in DOMAIN stack : stack[k].pc \in {"await", "dispatch"}}) <= 1
    /\ Len(dispatched) <= Len(responses)
    /\ Len(responses) <= Len(requests)
    /\ Len(requests) <= Len(responses) + 1
    /\ \A i \in DOMAIN trace :
          /\ trace[i] = "send" => (i = 1 \/ trace[i - 1] = "dispatch")
          /\ trace[i] = "recv" => (i > 1 /\ trace[i - 1] = "send")
          /\ trace[i] = "dispatch" => (i > 1 /\ trace[i - 1] = "recv")

\* the third request of a call is outstanding after two tool turns
C16_Witness ==
    /\ stack # <<>>
    /\ Top.pc = "await"
    /\ Len(stack) = 3
    /\ trace = <<"send", "recv", "dispatch", "send", "recv", "dispatch", "send">>

\* C17: the registry is read-only after construction, so no Run reads it (tool
\* enumeration at encode, tool lookup at dispatch) while another operation of
\* the Agent interface on the same agent can write it.
C17_RegistryRaceFree == ~(RegistryRead /\ RegistryWrite)

\* name, description and parameters of an advertised tool
ToolName(t) == IF adapter = "groq" THEN t.Function.Name ELSE t.Name

ToolDescription(t) ==
    IF adapter = "groq" THEN t.Function.Description ELSE t.Description

ToolParameters(t) ==
    IF adapter = "groq" THEN t.Function.Parameters ELSE t.Parameters

\* map after is map before with key n set to v and nothing else changed
Overwritten(before, after, n, v) ==
    /\ DOMAIN after = DOMAIN before \cup {n}
    /\ after[n] = v
    /\ \A x \in DOMAIN before \ {n} : after[x] = before[x]

\* the dispatched intents that reached the invocation of a callable
InvokingDispatches ==
    LET R[i \in 0..Len(dispatched)] ==
            IF i = 0 THEN <<>>
            ELSE IF /\ ~LookupFails(ToolStore, dispatched[i].Name)
                    /\ ~Unmarshal(dispatched[i].Arguments).err
                    /\ ~Unmarshal(dispatched[i].Arguments).null
                 THEN Append(R[i - 1], dispatched[i])
                 ELSE R[i - 1]
    IN R[Len(dispatched)]

\* C18: last write wins.  A registration that is accepted sets callable,
\* parameter shape and description of its tool name together and changes no
\* other name, so the registry holds one entry per name, the latest; dispatch by
\* a name invokes the callable the registry holds; every request (looked at when
\* it has just been sent) advertises every registered name exactly once, with
\* the registry's description and the schema of the registry's parameter shape.
C18_LastRegistrationWins ==
    /\ (registered # <<>> /\ registered[1].reg.fn.numIn = 1) =>
          LET r == registered[1].reg
              b == registered[1].before
              n == r.fn.name
          IN /\ Overwritten(b.functions, ToolStore.functions, n, r.fn)
             /\ Overwritten(b.paramTypes, ToolStore.paramTypes, n, r.paramType)
             /\ Overwritten(b.descriptions, ToolStore.descriptions, n, r.description)
    /\ DOMAIN ToolStore.paramTypes = DOMAIN ToolStore.functions
    /\ DOMAIN ToolStore.descriptions = DOMAIN ToolStore.functions
    /\ \A n \in DOMAIN ToolStore.functions :
          Registration(ToolStore.functions[n], ToolStore.paramTypes[n],
                       ToolStore.descriptions[n]) \in Registrations
    /\ Len(invoked) = Len(InvokingDispatches)
    /\ \A j \in DOMAIN invoked :
          invoked[j] = ToolStore.functions[InvokingDispatches[j].Name].body
    /\ (stack # <<>> /\ Top.pc = "await") =>
          LET B == requests[Len(requests)].Tools
              T == BagToSet(B)
          IN /\ {ToolName(t) : t \in T} = DOMAIN ToolStore.functions
             /\ \A n \in DOMAIN ToolStore.functions :
                   LET S == {t \in T : ToolName(t) = n} IN
                   /\ Cardinality(S) = 1
                   /\ \A t \in S :
                         /\ CopiesIn(t, B) = 1
                         /\ ToolDescription(t) = ToolStore.descriptions[n]
                         /\ ToolParameters(t) = Parameters(ToolStore.paramTypes[n])

\* div has just been registered again with another callable, shape and
\* description, beside notify
C18_Witness ==
    /\ registered # <<>>
    /\ registered[1].reg.fn = FnSafeDiv
    /\ "div" \in DOMAIN registered[1].before.functions
    /\ registered[1].before.functions["div"] = FnDiv
    /\ "notify" \in DOMAIN registered[1].before.functions
    /\ ToolStore.functions["div"] = FnSafeDiv
    /\ ToolStore.paramTypes["div"] = SafeDivParams

\* C19: Agent.RegisterTool with a callable that does not take exactly one
\* argument fails: the caller receives an error and the registry is as before.
C19_BadCallableRejected ==
    (registered # <<>> /\ registered[1].reg.fn.numIn # 1) =>
        /\ registered[1].err # ""
        /\ ToolStore = registered[1].before

\* the messages of a request, and role and text of one of them, as the adapter
\* puts them on the wire
WireMessages(req) == IF adapter = "openai" THEN req.Input ELSE req.Messages

WireRole(w) == w.Role

WireText(w) == IF adapter = "anthropic" THEN w.Content[1].Text ELSE w.Content

\* C20: a history of plain text messages (roles user and assistant) is put on
\* the wire message by message, in order, with the same role and the same text;
\* an assistant message handed back as history stays an assistant message.
C20_PlainHistoryKeepsRoleAndText ==
    requests # <<>> =>
        \A i \in 1..callerLen :
            /\ WireRole(WireMessages(requests[1])[i]) = CallerHistory[i].Role
            /\ WireText(WireMessages(requests[1])[i]) = CallerHistory[i].Text

(***************************************************************************)
(* Termination, request count, system prompt, message payloads.            *)
(***************************************************************************)
LastShape == responses[Len(responses)].shape

\* the last message of a history, ZeroMessage when it has none
LastMessage(msgs) == IF msgs = <<>> THEN ZeroMessage ELSE msgs[Len(msgs)]

\* C21: a Run returns successfully only after a text-only decode: in every
\* successful result the last response yielded a text message and no tool intent
\* (it is not empty and holds no tool call with an empty id), the last message
\* of the full history is an assistant text message and the final text is that
\* message's text.
C21_SuccessOnlyAfterTextOnlyDecode ==
    (outcome.status = "ok") =>
        /\ responses # <<>>
        /\ LastShape # <<>>
        /\ CallsOfShape(LastShape, Len(responses)) = <<>>
        /\ IsAssistantText(LastMessage(outcome.res[1].AllMessages))
        /\ FinalText(outcome.res[1]) = LastMessage(outcome.res[1].AllMessages).Text

\* the sends and dispatches of the call, in the order they happened
SendsAndDispatches ==
    LET R[i \in 0..Len(trace)] ==
            IF i = 0 THEN <<>>
            ELSE IF trace[i] \in {"send", "dispatch"} THEN Append(R[i - 1], trace[i])
                 ELSE R[i - 1]
    IN R[Len(trace)]

\* C22: each turn sends exactly one request: a Run that succeeded after k
\* dispatches has sent exactly k+1 requests, and its sends and dispatches
\* alternate send, dispatch, send, ..., send; a Run that failed has sent at most
\* (dispatches started + 1) requests.
C22_OneRequestPerTurn ==
    /\ (outcome.status = "ok") =>
          /\ Len(requests) = Len(dispatched) + 1
          /\ Len(SendsAndDispatches) = 2 * Len(dispatched) + 1
          /\ \A i \in DOMAIN SendsAndDispatches :
                SendsAndDispatches[i] = (IF i % 2 = 1 THEN "send" ELSE "dispatch")
    /\ (outcome.status \in {"error", "panic"}) =>
          Len(requests) <= Len(dispatched) + 1

\* a call that succeeded after two tool turns
C22_Witness ==
    /\ outcome.status = "ok"
    /\ Len(dispatched) = 2
    /\ Len(requests) = 3

\* how many times request req carries the system prompt: as the top-level field
\* System (Anthropic) or as a message with role "developer" (OpenAI, Groq)
SystemCarried(req) ==
    LET msgs == WireMessages(req)
        asMessage == Cardinality({i \in DOMAIN msgs : WireRole(msgs[i]) = "developer"})
    IN IF adapter = "anthropic"
       THEN asMessage + (IF req.System # "" THEN 1 ELSE 0)
       ELSE asMessage

\* the system prompt is a message of history msgs
SystemIn(msgs) ==
    \E i \in DOMAIN msgs : msgs[i].Role = "developer" \/ msgs[i].Text = SystemPrompt

\* C23: with a system prompt configured, every request of every turn carries it
\* exactly once (the field System for Anthropic, one message with role
\* "developer" and the prompt as content for OpenAI and Groq), and it is a
\* message of no history that Run returns or passes to a recursive turn.
C23_SystemPromptOncePerRequest ==
    SystemPrompt # "" =>
        /\ \A k \in DOMAIN requests :
              /\ SystemCarried(requests[k]) = 1
              /\ IF adapter = "anthropic"
                 THEN requests[k].System = SystemPrompt
                 ELSE \E i \in DOMAIN WireMessages(requests[k]) :
                         /\ WireRole(WireMessages(requests[k])[i]) = "developer"
                         /\ WireMessages(requests[k])[i].Content = SystemPrompt
        /\ \A k \in DOMAIN stack :
              stack[k].hist.present => ~SystemIn(stack[k].hist.elems)
        /\ outcome.res # <<>> => ~SystemIn(outcome.res[1].AllMessages)

\* a call with a system prompt configured that returned after two recursive turns
C23_Witness ==
    /\ SystemPrompt # ""
    /\ outcome.status = "ok"
    /\ Len(requests) = 3
    /\ Len(outcome.res[1].AllMessages) >= 5

\* the payloads of a message that are populated
Payloads(m) ==
    (IF m.Text # "" THEN {"text"} ELSE {})
        \cup (IF m.ToolIntent # <<>> THEN {"tool_intent"} ELSE {})
        \cup (IF m.ToolResult # <<>> THEN {"tool_result"} ELSE {})

\* the messages Run added to the history of a result
PlacedByRun(res) == SubSeq(res.AllMessages, callerLen + 1, Len(res.AllMessages))

\* C24: every message that Run places in a returned history has exactly one
\* payload populated (text, tool intent or tool result) and its Type names that
\* payload: "text", "tool_intent" or "tool_result".
C24_OnePayloadNamedByType ==
    outcome.res # <<>> =>
        \A i \in DOMAIN PlacedByRun(outcome.res[1]) :
            LET m == PlacedByRun(outcome.res[1])[i] IN
            /\ Cardinality(Payloads(m)) = 1
            /\ Payloads(m) = {m.Type}

(***************************************************************************)
(* Schema derivation, registration of parameter shapes, construction.      *)
(***************************************************************************)
\* the scalar kinds of the mapping: strings, integers of either sign and any
\* width, floats, booleans
IntegerKinds ==
    {"int", "int8", "int16", "int32", "int64",
     "uint", "uint8", "uint16", "uint32", "uint64"}

FloatKinds == {"float32", "float64"}

ScalarType(t) ==
    CASE t.Kind = "string"      -> "string"
      [] t.Kind \in IntegerKinds -> "integer"
      [] t.Kind \in FloatKinds   -> "number"
      [] t.Kind = "bool"         -> "boolean"
      [] OTHER                   -> "object"

RECURSIVE DerivedAs(_, _)

\* property p is the schema of a field of type t under the mapping of C25
DerivedAs(t, p) ==
    CASE t.Kind = "struct" ->
            /\ p.Type = "object"
            /\ DOMAIN p.Properties = {FieldName(t.Fields[i]) : i \in DOMAIN t.Fields}
            /\ \A i \in DOMAIN t.Fields :
                  (\A j \in DOMAIN t.Fields :
                      FieldName(t.Fields[j]) = FieldName(t.Fields[i]) => j <= i)
                  => DerivedAs(t.Fields[i].Type, p.Properties[FieldName(t.Fields[i])])
      [] t.Kind \in {"slice", "array"} ->
            /\ p.Type = "array"
            /\ p.Items # <<>>
            /\ p.Items[1].Type = ScalarType(t.Elem)
      [] OTHER -> p.Type = ScalarType(t)

\* the struct a conversion was applied to (the pointer followed)
ConvertedStruct ==
    IF conversion.input[1].Kind = "ptr" THEN conversion.input[1].Elem
    ELSE conversion.input[1]

\* C25: schema derivation maps every field of every struct by kind: string to
\* "string", every integer kind (signed or unsigned, any width) to "integer",
\* every float kind to "number", bool to "boolean", a nested struct to "object"
\* with its properties derived the same way, a slice or array to "array" with
\* the scalar mapping of the element kind as items type ("object" for elements
\* that are not scalars), every other kind to "object".
C25_SchemaKindMapping ==
    (conversion.out # <<>> /\ ~conversion.out[1].panic) =>
        \A i \in DOMAIN ConvertedStruct.Fields :
            (\A j \in DOMAIN ConvertedStruct.Fields :
                FieldName(ConvertedStruct.Fields[j]) = FieldName(ConvertedStruct.Fields[i])
                    => j <= i)
            => DerivedAs(ConvertedStruct.Fields[i].Type,
                         conversion.out[1].properties[FieldName(ConvertedStruct.Fields[i])])

\* C26: a parameter shape that is not a struct is rejected when the tool is
\* registered (the call returns an error and the registry is as before), so the
\* registry never holds such a shape and no Run panics in ConvertToProperties
\* while it builds the tool list.
C26_NonRecordShapeRejectedAtRegistration ==
    /\ (registered # <<>> /\ registered[1].reg.paramType.Kind # "struct") =>
          /\ registered[1].err # ""
          /\ ToolStore = registered[1].before
    /\ \A n \in DOMAIN ToolStore.paramTypes : ToolStore.paramTypes[n].Kind = "struct"
    /\ outcome.err # "Input must be a struct or pointer to struct"

\* the environment variable that holds the key of a provider
KeyVariable ==
    [openai |-> "OPENAI_API_KEY", anthropic |-> "ANTHROPIC_API_KEY",
     groq |-> "GROQ_API_KEY"]

\* the value the last option for field sets, zero when no option sets it
LastOption(opts, field, zero) ==
    IF \E i \in DOMAIN opts : opts[i].field = field
    THEN opts[CHOOSE i \in DOMAIN opts :
                 /\ opts[i].field = field
                 /\ \A j \in DOMAIN opts : opts[j].field = field => j <= i].value
    ELSE zero

\* the model string is "<provider>:<model>" for a listed model of one of the
\* three providers
ListedModel(m) ==
    /\ m \in AvailableModels
    /\ Len(m) = 3
    /\ m[1] \in DOMAIN KeyVariable
    /\ m[2] = ":"

\* C27: NewAgent returns an error and no agent when the model string is not a
\* listed "<provider>:<model>" entry or the variable <PROVIDER>_API_KEY of that
\* provider is not set; otherwise it returns no error and an agent of the
\* adapter the prefix names, with the model name without the prefix, the
\* variable's value as key, an empty tool registry, and each option field
\* holding what the last option for it set.
C27_NewAgentErrorsAndResult ==
    construction.out # <<>> =>
        LET m == construction.modelName
            r == construction.out[1]
        IN IF ~ListedModel(m) THEN r.agent = <<>> /\ r.err # ""
           ELSE IF KeyVariable[m[1]] \notin DOMAIN construction.env
           THEN r.agent = <<>> /\ r.err # ""
           ELSE /\ r.err = ""
                /\ r.agent # <<>>
                /\ r.agent[1].adapter = m[1]
                /\ r.agent[1].config.ModelName = m[3]
                /\ r.agent[1].config.ApiKey = construction.env[KeyVariable[m[1]]]
                /\ r.agent[1].config.ToolStore = EmptyStore
                /\ r.agent[1].config.SystemPrompt =
                      LastOption(construction.opts, "SystemPrompt", "")
                /\ r.agent[1].config.ReasoningEffort =
                      LastOption(construction.opts, "ReasoningEffort", "")
                /\ r.agent[1].config.Temperature =
                      LastOption(construction.opts, "Temperature", 0)

\* a Groq agent built with two system prompt options, the second one winning
C27_Witness ==
    /\ construction.out # <<>>
    /\ construction.out[1].err = ""
    /\ construction.out[1].agent[1].adapter = "groq"
    /\ construction.opts = <<WithSystemPrompt("be brief"), WithSystemPrompt("be kind")>>
    /\ construction.out[1].agent[1].config.SystemPrompt = "be kind"

(***************************************************************************)
(* Dispatch condition, placement of results, the intent of the result.     *)
(***************************************************************************)
\* what decoding the n-th response leaves in the locals of its frame
Decoded(n) == Decode(adapter, <<>>, responses[n].body)

\* the positions in trace of the events of the given kind, in order
Positions(kind) ==
    LET R[i \in 0..Len(trace)] ==
            IF i = 0 THEN <<>>
            ELSE IF trace[i] = kind THEN Append(R[i - 1], i) ELSE R[i - 1]
    IN R[Len(trace)]

\* the position in trace of the n-th event of the given kind
EventAt(kind, n) == Positions(kind)[n]

\* C28: a turn dispatches iff the tool intent its decode left active has a
\* non-empty id.  After a response decoded to an intent with a non-empty id the
\* next event of the call is the dispatch of that intent, once, before any
\* further request; after any other response (an intent with an empty id, no
\* intent, a decode error) no dispatch and no further request follows.
C28_DispatchIffNonEmptyId ==
    /\ \A n \in DOMAIN responses :
          LET p == EventAt("recv", n)
              d == Decoded(n)
          IN IF d.err = "" /\ d.toolIntent.Id # ""
             THEN IF p = Len(trace)
                  THEN stack # <<>> /\ Top.pc = "dispatch"
                                  /\ Top.toolIntent = d.toolIntent
                  ELSE /\ trace[p + 1] = "dispatch"
                       /\ dispatched[Cardinality({q \in 1..(p + 1) :
                                                    trace[q] = "dispatch"})]
                             = d.toolIntent
             ELSE /\ p = Len(trace)
                  /\ \A k \in DOMAIN stack : stack[k].pc # "dispatch"
    /\ \A i \in DOMAIN trace :
          trace[i] = "dispatch" => (i > 1 /\ trace[i - 1] = "recv")

\* a tool turn followed by a response whose only item is a tool call without id
C28_Witness ==
    /\ outcome.status = "ok"
    /\ Len(responses) = 2
    /\ responses[1].shape = <<"good">>
    /\ responses[2].shape = <<"noid">>
    /\ Len(dispatched) = 1
    /\ Len(requests) = 2

\* the histories Run has passed to a recursive turn or returned
HandedHistories ==
    {stack[k].hist.elems : k \in (DOMAIN stack) \ {1}}
        \cup {outcome.res[i].AllMessages : i \in DOMAIN outcome.res}

\* in msgs every tool_result after the caller's messages directly follows the
\* tool_intent of the same id
ResultsFollowIntents(msgs) ==
    \A i \in DOMAIN msgs :
        (i > callerLen /\ msgs[i].ToolResult # <<>>) =>
            /\ i > 1
            /\ msgs[i - 1].ToolIntent # <<>>
            /\ msgs[i - 1].ToolIntent[1].Id = msgs[i].ToolResult[1].Id

\* the full updated history of a frame that has dispatched
UpdatedHistory(f) ==
    IF adapter = "groq" THEN f.hist.elems \o f.newMessages ELSE f.allMessages

\* how often the user prompt of the call is a message Run added to msgs
PromptCount(msgs) ==
    Cardinality({i \in DOMAIN msgs :
                    i > callerLen /\ msgs[i] = TextMessage("user", callerPrompt)})

\* C29: in every history that Run returns or passes to a recursive turn each
\* tool_result message directly follows the tool_intent message of the same id;
\* the recursive turn is called with the full updated history of its caller and
\* an empty prompt, so a non-empty user prompt is in each such history once.
C29_ResultFollowsItsIntent ==
    /\ \A h \in HandedHistories : ResultsFollowIntents(h)
    /\ \A k \in (DOMAIN stack) \ {1} :
          /\ stack[k].prompt = ""
          /\ stack[k].hist.present
          /\ stack[k].hist.elems = UpdatedHistory(stack[k - 1])
    /\ callerPrompt # "" => \A h \in HandedHistories : PromptCount(h) = 1

\* no response of the call held a tool-call item
NoToolRequested ==
    \A n \in DOMAIN responses : CallsOfShape(responses[n].shape, n) = <<>>

\* C30: the ToolIntent and ToolArguments of the result of a top-level Run are
\* those of the last intent dispatched during the call (the k-th after k tool
\* turns, also for k >= 2), and empty when no tool was requested.
C30_ResultExposesLastIntent ==
    (outcome.status = "ok") =>
        /\ dispatched # <<>> =>
              /\ outcome.res[1].ToolIntent = <<LastDispatched>>
              /\ outcome.res[1].ToolArguments = LastDispatched.Arguments
        /\ NoToolRequested =>
              /\ outcome.res[1].ToolIntent = <<ZeroIntent>>
              /\ outcome.res[1].ToolArguments = ""

(***************************************************************************)
(* Decode before dispatch, intents in history, Groq results, determinism,  *)
(* encode failure.                                                         *)
(***************************************************************************)
\* the n-th response holds a tool call with a non-empty id
HasDispatchableCall(n) ==
    \E i \in DOMAIN CallsOfShape(responses[n].shape, n) :
        CallsOfShape(responses[n].shape, n)[i].Id # ""

\* C31: decoding of a response completes before any dispatch.  When a response
\* holds a tool call with a non-empty id and an item that makes decoding fail,
\* in either order, the receipt of that response is the last event of the call:
\* nothing is dispatched and no callable invoked for it, and the call ends with
\* the decode error.
C31_DecodeCompletesBeforeDispatch ==
    \A n \in DOMAIN responses :
        LET d == Decoded(n) IN
        (d.err # "" /\ HasDispatchableCall(n)) =>
            /\ EventAt("recv", n) = Len(trace)
            /\ Len(dispatched) <= n - 1
            /\ Len(invoked) <= n - 1
            /\ \A k \in DOMAIN stack : stack[k].pc \notin {"dispatch", "send", "await"}
            /\ Done => /\ outcome.status = "error"
                       /\ outcome.err = d.err

\* the first response was a call of the registered div followed by an item of
\* an unknown type, and the call has ended
C31_Witness ==
    /\ Done
    /\ Len(responses) = 1
    /\ responses[1].shape = <<"good", "other">>
    /\ "div" \in DOMAIN ToolStore.functions
    /\ invoked = <<>>
    /\ outcome.status = "error"

(***************************************************************************)
(* Recorded intents and the items they came from.                          *)
(***************************************************************************)
\* what the decode loop of adapter a records for one response item on its own
DecodedAlone(a, item) ==
    CASE a = "anthropic" -> AnthropicDecodeItem(DecodeStart(<<>>), "assistant", item).msgs
      [] a = "openai"    -> OpenaiDecodeItem(DecodeStart(<<>>), item).msgs
      [] OTHER           -> GroqDecodeItem(DecodeStart(<<>>), item).msgs

\* the tool_intent messages of the items of the n-th response, each item taken
\* on its own, in response order
ItemIntents(n) ==
    LET shape == responses[n].shape
        R[i \in 0..Len(shape)] ==
            IF i = 0 THEN <<>>
            ELSE R[i - 1] \o IntentMessages(
                                DecodedAlone(adapter, WireItem(adapter, shape[i], n, i)))
    IN R[Len(shape)]

\* the messages of a returned history that this call added
AddedMessages(res) ==
    SubSeq(res.AllMessages, callerLen + 1, Len(res.AllMessages))

\* C32: in a returned history every tool_intent message keeps the id, name and
\* arguments of the response item that produced it, whatever was decoded after
\* it: the tool_intent messages the call added begin with those of the items of
\* the first response, one per item, in response order.
C32_RecordedIntentsKeepTheirItem ==
    (Done /\ outcome.res # <<>> /\ responses # <<>>) =>
        LET recorded == IntentMessages(AddedMessages(outcome.res[1]))
            items    == ItemIntents(1)
        IN /\ Len(recorded) >= Len(items)
           /\ SubSeq(recorded, 1, Len(items)) = items

(***************************************************************************)
(* The results of the Groq adapter.                                        *)
(***************************************************************************)
\* the messages the n-th turn of the call creates: those decoded from the n-th
\* response and, when that turn's dispatch succeeded, its tool_result
MessagesOfTurn(n) ==
    Decoded(n).msgs
        \o (IF n <= Len(dispatched)
                /\ ExecuteToolIntent(ToolStore, dispatched[n]).kind = "ok"
            THEN <<ResultMessage(ExecuteToolIntent(ToolStore, dispatched[n]).result[1])>>
            ELSE <<>>)

\* the messages of the first k turns, in chronological order
MessagesOfTurns(k) ==
    LET R[n \in 0..k] == IF n = 0 THEN <<>> ELSE R[n - 1] \o MessagesOfTurn(n)
    IN R[k]

\* C33: in every result the Groq adapter returns AllMessages is the caller's
\* history followed by NewMessages.  On success NewMessages is the prompt and
\* then the messages of every turn in order (intents, results, texts); in the
\* partial result that comes with an error it is the prompt and the messages
\* decoded from the first response, which hold the tool_intent that was
\* dispatched, and no tool_result.
C33_GroqResultMessages ==
    (Done /\ adapter = "groq" /\ outcome.res # <<>>) =>
        LET res == outcome.res[1] IN
        /\ res.AllMessages = CallerHistory \o res.NewMessages
        /\ outcome.status = "ok" =>
              res.NewMessages = UserPrompt \o MessagesOfTurns(Len(responses))
        /\ outcome.status = "error" =>
              /\ res.NewMessages = UserPrompt \o Decoded(1).msgs
              /\ \E i \in DOMAIN res.NewMessages :
                    res.NewMessages[i] = IntentMessage(dispatched[1])
              /\ ResultIds(res.NewMessages) = <<>>

C33_Witness ==
    /\ adapter = "groq"
    /\ outcome.status = "error"
    /\ outcome.res # <<>>
    /\ callerLen > 0
    /\ callerPrompt # ""
    /\ Len(dispatched) = 2
    /\ Len(invoked) = 1

(***************************************************************************)
(* The request as a function of its inputs.  Run collects the tools with   *)
(* `for fn, _ := range provider.ToolStore.functions`; the order in which   *)
(* range visits the keys of a Go map is not specified and differs from one *)
(* loop to the next, so every order of the registered names is a possible  *)
(* outcome.  Here the request of one call is encoded more than once from   *)
(* the same agent, history and prompt, with Tools as the slice the loop    *)
(* built.                                                                  *)
(***************************************************************************)
\* how often the request of the call is encoded
ComparedRuns == 2

\* the orders in which range may visit the keys of a map
RangeOrders(keys) ==
    {o \in [1..Cardinality(keys) -> keys] :
        \A i, j \in DOMAIN o : o[i] = o[j] => i = j}

\* reqBody with Tools in the order the loop appended them
EncodeInOrder(a, f, store, system, order) ==
    [Encode(a, f, store, system).req EXCEPT
        !.Tools = [i \in DOMAIN order |-> WireTool(a, store, order[i])]]

\* Run up to json.Marshal(reqBody), for an agent whose tools can be encoded
EncodeRequest ==
    /\ stack # <<>>
    /\ Top.pc = "send"
    /\ Len(requests) < ComparedRuns
    /\ ~ToolsPanic(ToolStore)
    /\ ~Encode(adapter, Top, ToolStore, SystemPrompt).err
    /\ \E order \in RangeOrders(DOMAIN ToolStore.functions) :
          requests' = Append(requests,
                             EncodeInOrder(adapter, Top, ToolStore, SystemPrompt, order))
    /\ UNCHANGED <<adapter, ToolStore, stack, outcome, callerArr, callerArr0, callerLen,
                   callerPrompt, responses, dispatched, invoked, trace, failure,
                   registered, registering>>
    /\ UNCHANGED <<SystemPrompt, conversion, construction>>

InitEncode == \E system \in {"", ConfiguredPrompt} : InitConfig(system)

NextEncode ==
    \/ RegisterTool
    \/ Call
    \/ EncodeRequest

SpecEncode == InitEncode /\ [][NextEncode]_vars

\* C34: the encoded request is a function of history, prompt, configuration and
\* registry contents: requests encoded from equal inputs are identical, the
\* order of the advertised tools and the schema derived for each included.
C34_RequestIsDeterministic ==
    \A i, j \in DOMAIN requests : requests[i] = requests[j]

(***************************************************************************)
(* Runs on a recorded history.  The caller hands Run a history that holds  *)
(* a tool turn: a user text, a tool_intent and its tool_result.  The       *)
(* arguments of the recorded intent are what an earlier Run or the caller  *)
(* left there.                                                             *)
(***************************************************************************)
\* valid JSON that is not an object
ArgsArray == "[6,3]"

\* the argument strings that are JSON objects
JSONObjects == {ArgsGood, ArgsZero, ArgsWrongType}

RecordedArguments == {"", ArgsGood, ArgsBadJSON, ArgsArray, ArgsNull}

RecordedHistory(arguments) ==
    << TextMessage("user", "hello"),
       IntentMessage(ToolIntent("call_0_1", "div", arguments)),
       ResultMessage(ToolResult("call_0_1", "2")) >>

RecordedHistories == {RecordedHistory(arguments) : arguments \in RecordedArguments}

CallRecorded == CallWith(Prompts, RecordedHistories)

ReceiveRecorded == ReceiveWith({<<"text">>, <<"good">>, <<"other">>})

NextRecorded ==
    \/ RegisterTool
    \/ CallRecorded
    \/ SendRequest
    \/ RequestFails
    \/ ReceiveRecorded
    \/ Dispatch
    \/ Return

SpecRecorded == Init /\ [][NextRecorded]_vars

\* the call in progress or finished was given the history recorded with arguments
CalledWith(arguments) ==
    /\ callerLen > 0
    /\ CallerHistory = RecordedHistory(arguments)

\* the call has had no effect outside Run
NoExternalEffect ==
    /\ requests = <<>>
    /\ responses = <<>>
    /\ dispatched = <<>>
    /\ invoked = <<>>

\* Run has returned the encode error and no result
EncodeErrorOnly ==
    /\ outcome.status = "error"
    /\ outcome.err = "EncodeError"
    /\ outcome.res = <<>>

\* the tool_intent of the recorded history is sent as a tool_use block without input
EmptyArgumentsEncoded ==
    /\ failure.kind # "EncodeError"
    /\ requests # <<>> =>
          /\ Len(requests[1].Messages) >= 3
          /\ requests[1].Messages[2] =
                AnthropicMessage("assistant",
                    AnthropicContent("tool_use", "", "call_0_1", "div", InNil, "", ""))

\* C35: when the Anthropic adapter is given a history with a tool_intent whose
\* non-empty arguments are not a valid JSON object, Run returns an error and no
\* result, sends no request and dispatches no tool; a tool_intent with empty
\* arguments is encoded without error.
C35_EncodeFailureBeforeEffects ==
    adapter = "anthropic" =>
        /\ \A arguments \in RecordedArguments \ (JSONObjects \cup {""}) :
              CalledWith(arguments) =>
                  /\ NoExternalEffect
                  /\ Done => EncodeErrorOnly
        /\ CalledWith("") => EmptyArgumentsEncoded

\* C35, amended: when the Anthropic adapter is given a history with a tool_intent
\* whose non-empty arguments are neither a JSON object nor the literal null
\* (malformed JSON, or a JSON value of another kind), Run returns an error and no
\* result, sends no request and dispatches no tool; a tool_intent whose arguments
\* are empty is encoded without error, and so is one whose arguments are null:
\* both are sent as a tool_use block without input.
C35_EncodeFailureBeforeEffectsAmended ==
    adapter = "anthropic" =>
        /\ \A arguments \in RecordedArguments \ (JSONObjects \cup {"", ArgsNull}) :
              CalledWith(arguments) =>
                  /\ NoExternalEffect
                  /\ Done => EncodeErrorOnly
        /\ (CalledWith("") \/ CalledWith(ArgsNull)) => EmptyArgumentsEncoded

C35_Witness ==
    /\ adapter = "anthropic"
    /\ CalledWith(ArgsArray)
    /\ callerPrompt # ""
    /\ "div" \in DOMAIN ToolStore.functions
    /\ EncodeErrorOnly
    /\ NoExternalEffect

====
